---- MODULE Spec2Model ----
(***************************************************************************)
(* Model of the chemical equation balancer: ChemicalBalancer.balance, the  *)
(* formula Parser it calls for every molecule token, and MathSolver.solve. *)
(* Texts are sequences of one-character strings; JavaScript numbers that   *)
(* the orchestrator computes are exact rationals <<numerator, denominator>>*)
(***************************************************************************)
EXTENDS Integers, Sequences, FiniteSets, TLC

(***************************************************************************)
(* Characters and text helpers (String.prototype / RegExp primitives)      *)
(***************************************************************************)

\* The characters of the modelled alphabet in UTF-16 code unit order.
CodeOrder ==
  << " ", "$", "(", ")", "+", "-", ".",
     "0", "1", "2", "3", "4", "5", "6", "7", "8", "9", "=", ">",
     "A", "B", "C", "D", "E", "F", "G", "H", "I", "J", "K", "L", "M",
     "N", "O", "P", "Q", "R", "S", "T", "U", "V", "W", "X", "Y", "Z",
     "[", "]", "^", "_",
     "a", "b", "c", "d", "e", "f", "g", "h", "i", "j", "k", "l", "m",
     "n", "o", "p", "q", "r", "s", "t", "u", "v", "w", "x", "y", "z",
     "RIGHTWARDS_ARROW", "EQUILIBRIUM_ARROW" >>

CodeOf(c) == CHOOSE i \in 1..Len(CodeOrder) : CodeOrder[i] = c

DigitChars == <<"0", "1", "2", "3", "4", "5", "6", "7", "8", "9">>

IsDigit(c) == c \in {"0", "1", "2", "3", "4", "5", "6", "7", "8", "9"}

IsUpper(c) ==
  c \in {"A", "B", "C", "D", "E", "F", "G", "H", "I", "J", "K", "L", "M",
         "N", "O", "P", "Q", "R", "S", "T", "U", "V", "W", "X", "Y", "Z"}

IsLower(c) ==
  c \in {"a", "b", "c", "d", "e", "f", "g", "h", "i", "j", "k", "l", "m",
         "n", "o", "p", "q", "r", "s", "t", "u", "v", "w", "x", "y", "z"}

\* \s of the regular expressions, restricted to the alphabet
IsSpace(c) == c = " "

DigitVal(c) == (CHOOSE i \in 1..10 : DigitChars[i] = c) - 1

\* s.substring(from - 1) with 1-based from
Drop(s, k) == SubSeq(s, k + 1, Len(s))

Take(s, k) == SubSeq(s, 1, k)

\* formula.replace(/\s+/g, '')
StripSpaces(s) == SelectSeq(s, LAMBDA c : ~IsSpace(c))

RECURSIVE LeadingSpaces(_)
LeadingSpaces(s) ==
  IF s # <<>> /\ IsSpace(Head(s)) THEN 1 + LeadingSpaces(Tail(s)) ELSE 0

RECURSIVE TrailingSpaces(_)
TrailingSpaces(s) ==
  IF s # <<>> /\ IsSpace(s[Len(s)])
  THEN 1 + TrailingSpaces(Take(s, Len(s) - 1)) ELSE 0

\* String.prototype.trim
Trim(s) ==
  LET a == LeadingSpaces(s) IN
  IF a = Len(s) THEN <<>> ELSE SubSeq(s, a + 1, Len(s) - TrailingSpaces(s))

\* length of the longest prefix of digits (\d* at the start)
RECURSIVE LeadingDigits(_)
LeadingDigits(s) ==
  IF s # <<>> /\ IsDigit(Head(s)) THEN 1 + LeadingDigits(Tail(s)) ELSE 0

\* length of the longest suffix of digits
RECURSIVE TrailingDigits(_)
TrailingDigits(s) ==
  IF s # <<>> /\ IsDigit(s[Len(s)])
  THEN 1 + TrailingDigits(Take(s, Len(s) - 1)) ELSE 0

\* parseInt(digits, 10) on a non-empty run of digits
RECURSIVE ParseInt(_)
ParseInt(ds) ==
  IF ds = <<>> THEN 0
  ELSE 10 * ParseInt(Take(ds, Len(ds) - 1)) + DigitVal(ds[Len(ds)])

\* String(n) for a natural number
RECURSIVE NatToText(_)
NatToText(n) ==
  IF n < 10 THEN <<DigitChars[n + 1]>>
  ELSE NatToText(n \div 10) \o <<DigitChars[(n % 10) + 1]>>

\* s.includes(c) for a single character
Includes(s, c) == \E i \in 1..Len(s) : s[i] = c

\* whether pat occurs in s at (1-based) position i
OccursAt(s, pat, i) ==
  /\ i + Len(pat) - 1 <= Len(s)
  /\ \A k \in 1..Len(pat) : s[i + k - 1] = pat[k]

\* s.split(sep) for a non-empty separator string
RECURSIVE SplitOn(_, _)
SplitOn(s, sep) ==
  LET hits == {i \in 1..Len(s) : OccursAt(s, sep, i)} IN
  IF hits = {} THEN <<s>>
  ELSE LET i == CHOOSE h \in hits : \A g \in hits : h <= g
       IN <<Take(s, i - 1)>> \o SplitOn(Drop(s, i + Len(sep) - 1), sep)

\* the text a sequence of texts joins to: parts.join(glue)
RECURSIVE Join(_, _)
Join(parts, glue) ==
  IF parts = <<>> THEN <<>>
  ELSE IF Len(parts) = 1 THEN parts[1]
  ELSE parts[1] \o glue \o Join(Tail(parts), glue)

\* m.match(/^(\d+)(.+)/): the digits group is greedy and gives one digit
\* back when nothing else is left for the second group
MatchLeadingCoeff(m) ==
  LET k == LeadingDigits(m) IN
  IF k = 0 THEN [matched |-> FALSE]
  ELSE IF k < Len(m)
       THEN [matched |-> TRUE, digits |-> Take(m, k), rest |-> Drop(m, k)]
  ELSE IF k >= 2
       THEN [matched |-> TRUE, digits |-> Take(m, k - 1), rest |-> Drop(m, k - 1)]
  ELSE [matched |-> FALSE]

\* comparison of two texts by code units, as Array.prototype.sort() does
RECURSIVE TextLess(_, _)
TextLess(a, b) ==
  IF b = <<>> THEN FALSE
  ELSE IF a = <<>> THEN TRUE
  ELSE IF Head(a) = Head(b) THEN TextLess(Tail(a), Tail(b))
  ELSE CodeOf(Head(a)) < CodeOf(Head(b))

RECURSIVE InsertSorted(_, _)
InsertSorted(sorted, x) ==
  IF sorted = <<>> THEN <<x>>
  ELSE IF TextLess(x, Head(sorted)) THEN <<x>> \o sorted
  ELSE <<Head(sorted)>> \o InsertSorted(Tail(sorted), x)

\* Array.prototype.sort() of an array of distinct texts
RECURSIVE SortTexts(_)
SortTexts(xs) ==
  IF xs = <<>> THEN <<>>
  ELSE InsertSorted(SortTexts(Take(xs, Len(xs) - 1)), xs[Len(xs)])

(***************************************************************************)
(* Exact rationals <<n, d>> in lowest terms with d > 0 (fraction.js)       *)
(***************************************************************************)

Abs(x) == IF x < 0 THEN -x ELSE x

\* MathSolver.gcd on non-negative numbers
RECURSIVE gcd(_, _)
gcd(a, b) == IF b = 0 THEN a ELSE gcd(b, a % b)

\* MathSolver.lcm
lcm(a, b) == IF a = 0 \/ b = 0 THEN 0 ELSE (a * b) \div gcd(a, b)

\* new Fraction(n, d): lowest terms, the sign carried by the numerator
Frac(n, d) ==
  LET sn == IF d < 0 THEN -n ELSE n
      sd == Abs(d)
      g  == gcd(Abs(sn), sd)
  IN <<sn \div g, sd \div g>>

FracOfInt(n) == <<n, 1>>

FracAdd(a, b) == Frac(a[1] * b[2] + b[1] * a[2], a[2] * b[2])

FracSub(a, b) == Frac(a[1] * b[2] - b[1] * a[2], a[2] * b[2])

FracMul(a, b) == Frac(a[1] * b[1], a[2] * b[2])

FracDiv(a, b) == Frac(a[1] * b[2], a[2] * b[1])

FracNeg(a) == <<-a[1], a[2]>>

FracIsZero(a) == a[1] = 0

\* the fields s, n, d of a fraction.js value: sign, magnitude of the
\* numerator, denominator
FracS(a) == IF a[1] < 0 THEN -1 ELSE 1

FracN(a) == Abs(a[1])

FracD(a) == a[2]

FracIsInteger(a) == a[2] = 1

(***************************************************************************)
(* ElementCounts: an object whose keys keep their insertion order, as a    *)
(* sequence of <<element, count>> pairs with distinct elements             *)
(***************************************************************************)

ChargeKey == <<"_", "Q">>

HasKey(counts, el) == \E i \in 1..Len(counts) : counts[i][1] = el

\* counts[el] || 0
CountOf(counts, el) ==
  IF HasKey(counts, el)
  THEN counts[CHOOSE i \in 1..Len(counts) : counts[i][1] = el][2]
  ELSE 0

\* counts[el] = (counts[el] || 0) + n
AddCount(counts, el, n) ==
  IF HasKey(counts, el)
  THEN [i \in 1..Len(counts) |->
          IF counts[i][1] = el THEN <<el, counts[i][2] + n>> ELSE counts[i]]
  ELSE Append(counts, <<el, n>>)

\* Object.keys(counts)
Keys(counts) == [i \in 1..Len(counts) |-> counts[i][1]]

\* Array.from(new Set(xs)): first occurrences, in order
RECURSIVE Dedup(_)
Dedup(xs) ==
  IF xs = <<>> THEN <<>>
  ELSE LET front == Dedup(Take(xs, Len(xs) - 1))
           x == xs[Len(xs)]
       IN IF \E i \in 1..Len(front) : front[i] = x THEN front
          ELSE Append(front, x)

\* data.flatMap(d => Object.keys(d))
RECURSIVE FlatKeys(_)
FlatKeys(data) ==
  IF data = <<>> THEN <<>> ELSE Keys(Head(data)) \o FlatKeys(Tail(data))


(***************************************************************************)
(* Messages: i18n                                                          *)
(***************************************************************************)

\* translations: the messages of the keys balance and the parser use, in
\* both locales; a character outside ASCII is written by its code point
translations ==
  [en |->
     "error.empty_equation" :>
       << "E", "m", "p", "t", "y", " ", "e", "q", "u", "a", "t", "i", "o",
         "n" >>
     @@
     "error.missing_separator" :>
       << "I", "n", "v", "a", "l", "i", "d", " ", "e", "q", "u", "a", "t",
         "i", "o", "n", " ", "s", "y", "n", "t", "a", "x", ":", " ", "m",
         "i", "s", "s", "i", "n", "g", " ", "s", "e", "p", "a", "r", "a",
         "t", "o", "r", " ", "(", "-", ">", ",", " ", "=", ">", ",", " ",
         "=", ")" >>
     @@
     "error.multiple_separators" :>
       << "I", "n", "v", "a", "l", "i", "d", " ", "e", "q", "u", "a", "t",
         "i", "o", "n", " ", "s", "y", "n", "t", "a", "x", ":", " ", "m",
         "u", "l", "t", "i", "p", "l", "e", " ", "s", "e", "p", "a", "r",
         "a", "t", "o", "r", "s", " ", "f", "o", "u", "n", "d" >>
     @@
     "error.missing_reactants_or_products" :>
       << "M", "i", "s", "s", "i", "n", "g", " ", "r", "e", "a", "c", "t",
         "a", "n", "t", "s", " ", "o", "r", " ", "p", "r", "o", "d", "u",
         "c", "t", "s" >>
     @@
     "error.element_missing_in_products" :>
       << "E", "l", "e", "m", "e", "n", "t", " ", "'", "{", "e", "l", "e",
         "m", "e", "n", "t", "}", "'", " ", "i", "s", " ", "p", "r", "e",
         "s", "e", "n", "t", " ", "i", "n", " ", "r", "e", "a", "c", "t",
         "a", "n", "t", "s", " ", "b", "u", "t", " ", "m", "i", "s", "s",
         "i", "n", "g", " ", "i", "n", " ", "p", "r", "o", "d", "u", "c",
         "t", "s" >>
     @@
     "error.element_missing_in_reactants" :>
       << "E", "l", "e", "m", "e", "n", "t", " ", "'", "{", "e", "l", "e",
         "m", "e", "n", "t", "}", "'", " ", "i", "s", " ", "p", "r", "e",
         "s", "e", "n", "t", " ", "i", "n", " ", "p", "r", "o", "d", "u",
         "c", "t", "s", " ", "b", "u", "t", " ", "m", "i", "s", "s", "i",
         "n", "g", " ", "i", "n", " ", "r", "e", "a", "c", "t", "a", "n",
         "t", "s" >>
     @@
     "error.invalid_formula_syntax" :>
       << "I", "n", "v", "a", "l", "i", "d", " ", "f", "o", "r", "m", "u",
         "l", "a", " ", "s", "y", "n", "t", "a", "x", " ", "(", "u", "n",
         "b", "a", "l", "a", "n", "c", "e", "d", " ", "o", "r", " ", "m",
         "a", "l", "f", "o", "r", "m", "e", "d", " ", "p", "a", "r", "e",
         "n", "t", "h", "e", "s", "e", "s", ")", ":", " ", "{", "f", "o",
         "r", "m", "u", "l", "a", "}" >>
     @@
     "error.invalid_characters" :>
       << "I", "n", "v", "a", "l", "i", "d", " ", "c", "h", "a", "r", "a",
         "c", "t", "e", "r", "s", " ", "i", "n", " ", "f", "o", "r", "m",
         "u", "l", "a", " ", "'", "{", "f", "o", "r", "m", "u", "l", "a",
         "}", "'", ":", " ", "'", "{", "c", "h", "a", "r", "s", "}", "'" >>
     @@
     "error.invalid_characters_end" :>
       << "I", "n", "v", "a", "l", "i", "d", " ", "c", "h", "a", "r", "a",
         "c", "t", "e", "r", "s", " ", "a", "t", " ", "e", "n", "d", " ",
         "o", "f", " ", "f", "o", "r", "m", "u", "l", "a", " ", "'", "{",
         "f", "o", "r", "m", "u", "l", "a", "}", "'", ":", " ", "'", "{",
         "c", "h", "a", "r", "s", "}", "'" >>
     @@
     "error.unknown_element" :>
       << "U", "n", "k", "n", "o", "w", "n", " ", "e", "l", "e", "m", "e",
         "n", "t", " ", "'", "{", "e", "l", "e", "m", "e", "n", "t", "}",
         "'", " ", "i", "n", " ", "f", "o", "r", "m", "u", "l", "a", " ",
         "'", "{", "f", "o", "r", "m", "u", "l", "a", "}", "'" >>,
   vi |->
     "error.empty_equation" :>
       << "P", "h", "U+01B0", "U+01A1", "n", "g", " ", "t", "r", "U+00EC",
         "n", "h", " ", "r", "U+1ED7", "n", "g" >>
     @@
     "error.missing_separator" :>
       << "C", "U+00FA", " ", "p", "h", "U+00E1", "p", " ", "p", "h",
         "U+01B0", "U+01A1", "n", "g", " ", "t", "r", "U+00EC", "n", "h",
         " ", "k", "h", "U+00F4", "n", "g", " ", "h", "U+1EE3", "p", " ",
         "l", "U+1EC7", ":", " ", "t", "h", "i", "U+1EBF", "u", " ", "d",
         "U+1EA5", "u", " ", "p", "h", "U+00E2", "n", " ", "c", "U+00E1",
         "c", "h", " ", "(", "-", ">", ",", " ", "=", ">", ",", " ", "=",
         ")" >>
     @@
     "error.multiple_separators" :>
       << "C", "U+00FA", " ", "p", "h", "U+00E1", "p", " ", "p", "h",
         "U+01B0", "U+01A1", "n", "g", " ", "t", "r", "U+00EC", "n", "h",
         " ", "k", "h", "U+00F4", "n", "g", " ", "h", "U+1EE3", "p", " ",
         "l", "U+1EC7", ":", " ", "c", "U+00F3", " ", "n", "h", "i",
         "U+1EC1", "u", " ", "d", "U+1EA5", "u", " ", "p", "h", "U+00E2",
         "n", " ", "c", "U+00E1", "c", "h" >>
     @@
     "error.missing_reactants_or_products" :>
       << "T", "h", "i", "U+1EBF", "u", " ", "c", "h", "U+1EA5", "t", " ",
         "p", "h", "U+1EA3", "n", " ", "U+1EE9", "n", "g", " ", "h", "o",
         "U+1EB7", "c", " ", "s", "U+1EA3", "n", " ", "p", "h", "U+1EA9",
         "m" >>
     @@
     "error.element_missing_in_products" :>
       << "N", "g", "u", "y", "U+00EA", "n", " ", "t", "U+1ED1", " ", "'",
         "{", "e", "l", "e", "m", "e", "n", "t", "}", "'", " ", "c",
         "U+00F3", " ", "t", "r", "o", "n", "g", " ", "c", "h", "U+1EA5",
         "t", " ", "p", "h", "U+1EA3", "n", " ", "U+1EE9", "n", "g", " ",
         "n", "h", "U+01B0", "n", "g", " ", "t", "h", "i", "U+1EBF", "u",
         " ", "t", "r", "o", "n", "g", " ", "s", "U+1EA3", "n", " ", "p",
         "h", "U+1EA9", "m" >>
     @@
     "error.element_missing_in_reactants" :>
       << "N", "g", "u", "y", "U+00EA", "n", " ", "t", "U+1ED1", " ", "'",
         "{", "e", "l", "e", "m", "e", "n", "t", "}", "'", " ", "c",
         "U+00F3", " ", "t", "r", "o", "n", "g", " ", "s", "U+1EA3", "n",
         " ", "p", "h", "U+1EA9", "m", " ", "n", "h", "U+01B0", "n", "g",
         " ", "t", "h", "i", "U+1EBF", "u", " ", "t", "r", "o", "n", "g",
         " ", "c", "h", "U+1EA5", "t", " ", "p", "h", "U+1EA3", "n", " ",
         "U+1EE9", "n", "g" >>
     @@
     "error.invalid_formula_syntax" :>
       << "C", "U+00FA", " ", "p", "h", "U+00E1", "p", " ", "c", "U+00F4",
         "n", "g", " ", "t", "h", "U+1EE9", "c", " ", "k", "h", "U+00F4",
         "n", "g", " ", "h", "U+1EE3", "p", " ", "l", "U+1EC7", " ", "(",
         "n", "g", "o", "U+1EB7", "c", " ", "k", "h", "U+00F4", "n", "g",
         " ", "c", "U+00E2", "n", " ", "b", "U+1EB1", "n", "g", " ", "h",
         "o", "U+1EB7", "c", " ", "s", "a", "i", " ", "U+0111", "U+1ECB",
         "n", "h", " ", "d", "U+1EA1", "n", "g", ")", ":", " ", "{", "f",
         "o", "r", "m", "u", "l", "a", "}" >>
     @@
     "error.invalid_characters" :>
       << "K", "U+00FD", " ", "t", "U+1EF1", " ", "k", "h", "U+00F4", "n",
         "g", " ", "h", "U+1EE3", "p", " ", "l", "U+1EC7", " ", "t", "r",
         "o", "n", "g", " ", "c", "U+00F4", "n", "g", " ", "t", "h",
         "U+1EE9", "c", " ", "'", "{", "f", "o", "r", "m", "u", "l", "a",
         "}", "'", ":", " ", "'", "{", "c", "h", "a", "r", "s", "}", "'" >>
     @@
     "error.invalid_characters_end" :>
       << "K", "U+00FD", " ", "t", "U+1EF1", " ", "k", "h", "U+00F4", "n",
         "g", " ", "h", "U+1EE3", "p", " ", "l", "U+1EC7", " ", "U+1EDF",
         " ", "c", "u", "U+1ED1", "i", " ", "c", "U+00F4", "n", "g", " ",
         "t", "h", "U+1EE9", "c", " ", "'", "{", "f", "o", "r", "m", "u",
         "l", "a", "}", "'", ":", " ", "'", "{", "c", "h", "a", "r", "s",
         "}", "'" >>
     @@
     "error.unknown_element" :>
       << "N", "g", "u", "y", "U+00EA", "n", " ", "t", "U+1ED1", " ", "k",
         "h", "U+00F4", "n", "g", " ", "x", "U+00E1", "c", " ", "U+0111",
         "U+1ECB", "n", "h", " ", "'", "{", "e", "l", "e", "m", "e", "n",
         "t", "}", "'", " ", "t", "r", "o", "n", "g", " ", "c", "U+00F4",
         "n", "g", " ", "t", "h", "U+1EE9", "c", " ", "'", "{", "f", "o",
         "r", "m", "u", "l", "a", "}", "'" >>]

\* let currentLocale: Locale = 'en': the locale of the module, which
\* setLocale sets and t reads
VARIABLE currentLocale

\* a value as String.prototype.replace writes it when it is given as the
\* replacement: $$ stands for one $
RECURSIVE Replacement(_)
Replacement(value) ==
  IF value = <<>> THEN <<>>
  ELSE IF Len(value) >= 2 /\ value[1] = "$" /\ value[2] = "$"
  THEN <<"$">> \o Replacement(Drop(value, 2))
  ELSE <<Head(value)>> \o Replacement(Tail(value))

\* message.replace(new RegExp('\\{param\\}', 'g'), value) for each entry of
\* params in order
RECURSIVE Interpolate(_, _)
Interpolate(message, params) ==
  IF params = <<>> THEN message
  ELSE LET param == Head(params)[1]
           value == Head(params)[2]
       IN Interpolate(Join(SplitOn(message, <<"{">> \o param \o <<"}">>),
                           Replacement(value)),
                      Tail(params))

\* a key as the text t returns when no locale has a message for it: the
\* whole key is written as one item
KeyText(key) == <<key>>

\* translations[currentLocale][key] || translations.en[key] || key
Message(key) ==
  IF key \in DOMAIN translations[currentLocale]
       /\ translations[currentLocale][key] # <<>>
  THEN translations[currentLocale][key]
  ELSE IF key \in DOMAIN translations.en /\ translations.en[key] # <<>>
  THEN translations.en[key]
  ELSE KeyText(key)

\* a translation that returns the key for every key
tKeyOnly(key, params) == Interpolate(KeyText(key), params)

\* t(key, params): the translated message with its parameters filled in
t(key, params) == Interpolate(Message(key), params)

\* the names of the message parameters
ElementParam == << "e", "l", "e", "m", "e", "n", "t" >>
FormulaParam == << "f", "o", "r", "m", "u", "l", "a" >>
CharsParam == << "c", "h", "a", "r", "s" >>

\* new Error(t(key, params))
ErrorOf(key, params) == [name |-> "Error", message |-> t(key, params)]

(***************************************************************************)
(* MathSolver                                                              *)
(***************************************************************************)

MAX_WEIGHT_SEARCH == 6

\* a thrown exception and a normal return of a function
Throw(err) == [ok |-> FALSE, err |-> err]

Return(v) == [ok |-> TRUE, val |-> v]

\* a signed matrix whose columns stand in the reverse order of the molecules
BuildMatrixReversed(reactants, products) ==
  LET allMolecules == reactants \o products
      uniqueElements == SortTexts(Dedup(FlatKeys(allMolecules)))
      n == Len(allMolecules)
  IN [r \in 1..Len(uniqueElements) |->
        [c \in 1..n |->
           LET count == CountOf(allMolecules[n + 1 - c], uniqueElements[r])
           IN FracOfInt(IF n + 1 - c <= Len(reactants) THEN count ELSE -count)]]

\* the signed matrix of solve: one row per sorted element, one column per
\* molecule, reactant counts positive and product counts negative
BuildMatrix(reactants, products) ==
  LET allMolecules == reactants \o products
      uniqueElements == SortTexts(Dedup(FlatKeys(allMolecules)))
  IN [r \in 1..Len(uniqueElements) |->
        [c \in 1..Len(allMolecules) |->
           LET count == CountOf(allMolecules[c], uniqueElements[r])
           IN FracOfInt(IF c <= Len(reactants) THEN count ELSE -count)]]

\* the while loop of toRREF: the row i >= r whose entry in column lead is
\* not zero, moving lead right when a column is zero from row r down;
\* <<0, 0>> when the columns are exhausted (the function returns)
RECURSIVE FindPivot(_, _, _, _)
FindPivot(matrix, r, i, lead) ==
  IF ~FracIsZero(matrix[i][lead]) THEN <<i, lead>>
  ELSE IF i + 1 > Len(matrix)
       THEN IF lead + 1 > Len(matrix[1]) THEN <<0, 0>>
            ELSE FindPivot(matrix, r, r, lead + 1)
  ELSE FindPivot(matrix, r, i + 1, lead)

\* one iteration of the for loop of toRREF on row r (1-based)
RECURSIVE RREFFrom(_, _, _)
RREFFrom(matrix, r, lead) ==
  LET numRows == Len(matrix)
      numCols == Len(matrix[1])
  IN
  IF r > numRows \/ numCols < lead THEN matrix
  ELSE
    LET p == FindPivot(matrix, r, r, lead) IN
    IF p = <<0, 0>> THEN matrix
    ELSE
      LET i == p[1]
          ld == p[2]
          swapped == [x \in 1..numRows |->
                        IF x = r THEN matrix[i]
                        ELSE IF x = i THEN matrix[r] ELSE matrix[x]]
          val == swapped[r][ld]
          pivotRow == [j \in 1..numCols |-> FracDiv(swapped[r][j], val)]
          reduced == [x \in 1..numRows |->
                        IF x = r THEN pivotRow
                        ELSE [j \in 1..numCols |->
                                FracSub(swapped[x][j],
                                        FracMul(swapped[x][ld], pivotRow[j]))]]
      IN RREFFrom(reduced, r + 1, ld + 1)

\* the message of the TypeError reading matrix[0].length of an empty matrix
UndefinedLengthMessage ==
  << "C", "a", "n", "n", "o", "t", " ", "r", "e", "a", "d", " ", "p", "r",
         "o", "p", "e", "r", "t", "i", "e", "s", " ", "o", "f", " ", "u",
         "n", "d", "e", "f", "i", "n", "e", "d", " ", "(", "r", "e", "a",
         "d", "i", "n", "g", " ", "'", "l", "e", "n", "g", "t", "h", "'",
         ")" >>

\* MathSolver.toRREF; reading matrix[0].length of an empty matrix throws
toRREF(matrix) ==
  IF Len(matrix) = 0
  THEN Throw([name |-> "TypeError", message |-> UndefinedLengthMessage])
  ELSE Return(RREFFrom(matrix, 1, 1))

\* the pivot columns, found left to right (the free columns are the rest)
RECURSIVE PivotCols(_, _, _)
PivotCols(matrix, r, c) ==
  IF c > Len(matrix[1]) THEN <<>>
  ELSE IF r <= Len(matrix) /\ ~FracIsZero(matrix[r][c])
       THEN <<c>> \o PivotCols(matrix, r + 1, c + 1)
  ELSE PivotCols(matrix, r, c + 1)

FreeCols(matrix, pivotCols) ==
  SelectSeq([c \in 1..Len(matrix[1]) |-> c],
            LAMBDA c : \A i \in 1..Len(pivotCols) : pivotCols[i] # c)

\* sum over j > pivotCol of matrix[row][j] * solution[j]
RECURSIVE RowDot(_, _, _)
RowDot(row, solution, j) ==
  IF j > Len(row) THEN FracOfInt(0)
  ELSE FracAdd(FracMul(row[j], solution[j]), RowDot(row, solution, j + 1))

\* a back substitution that stores the sum and not its negative
RECURSIVE BackSubstituteUnnegated(_, _, _, _)
BackSubstituteUnnegated(matrix, pivotCols, solution, i) ==
  IF i = 0 THEN solution
  ELSE LET pivotCol == pivotCols[i]
           sum == RowDot(matrix[i], solution, pivotCol + 1)
       IN BackSubstituteUnnegated(matrix, pivotCols,
                                  [solution EXCEPT ![pivotCol] = sum], i - 1)

\* back substitution through the pivot rows, last pivot first
RECURSIVE BackSubstitute(_, _, _, _)
BackSubstitute(matrix, pivotCols, solution, i) ==
  IF i = 0 THEN solution
  ELSE LET pivotCol == pivotCols[i]
           sum == RowDot(matrix[i], solution, pivotCol + 1)
       IN BackSubstitute(matrix, pivotCols,
                         [solution EXCEPT ![pivotCol] = FracNeg(sum)], i - 1)

\* the basis vector of one free column
BasisVector(matrix, pivotCols, freeCol) ==
  LET start == [j \in 1..Len(matrix[1]) |->
                  IF j = freeCol THEN FracOfInt(1) ELSE FracOfInt(0)]
  IN BackSubstitute(matrix, pivotCols, start, Len(pivotCols))

BasisVectors(matrix) ==
  LET pivotCols == PivotCols(matrix, 1, 1)
      freeCols == FreeCols(matrix, pivotCols)
  IN [k \in 1..Len(freeCols) |-> BasisVector(matrix, pivotCols, freeCols[k])]

ZeroCount(vec) == Cardinality({i \in 1..Len(vec) : FracIsZero(vec[i])})

\* a leaf that keeps the first candidate with no negative entry
ConsiderCandidateFirst(currentVec, best) ==
  IF best = <<>> /\ \A i \in 1..Len(currentVec) : FracS(currentVec[i]) >= 0
  THEN currentVec
  ELSE best

\* the leaf of searchWeights: a candidate with no negative entry replaces
\* bestVector when there is none yet or when it has fewer zeros
ConsiderCandidate(currentVec, best) ==
  IF \A i \in 1..Len(currentVec) : FracS(currentVec[i]) >= 0
  THEN IF best = <<>> THEN currentVec
       ELSE IF ZeroCount(currentVec) < ZeroCount(best) THEN currentVec
       ELSE best
  ELSE best

\* searchWeights(index, currentVec) with bestVector threaded through; the
\* loop over the weights stops once bestVector has no zero entry
RECURSIVE searchWeights(_, _, _, _, _)
searchWeights(basis, index, currentVec, best, w) ==
  IF index > Len(basis) THEN ConsiderCandidate(currentVec, best)
  ELSE IF w > MAX_WEIGHT_SEARCH THEN best
  ELSE
    LET nextVec == [i \in 1..Len(currentVec) |->
                      FracAdd(currentVec[i],
                              FracMul(basis[index][i], FracOfInt(w)))]
        after == searchWeights(basis, index + 1, nextVec, best, 1)
    IN IF after # <<>> /\ \A i \in 1..Len(after) : FracN(after[i]) > 0
       THEN after
       ELSE searchWeights(basis, index, currentVec, after, w + 1)

\* the unweighted sum of all basis vectors
RECURSIVE SumVectors(_, _)
SumVectors(basis, numCols) ==
  IF basis = <<>> THEN [i \in 1..numCols |-> FracOfInt(0)]
  ELSE LET rest == SumVectors(Tail(basis), numCols)
       IN [i \in 1..numCols |-> FracAdd(Head(basis)[i], rest[i])]

RECURSIVE GcdAll(_, _)
GcdAll(xs, acc) ==
  IF xs = <<>> THEN acc ELSE GcdAll(Tail(xs), gcd(acc, Head(xs)))

RECURSIVE LcmDenominators(_, _)
LcmDenominators(vector, acc) ==
  IF vector = <<>> THEN acc
  ELSE LcmDenominators(Tail(vector), lcm(acc, FracD(Head(vector))))

\* a normalization that keeps the signs of the entries
normalizeSigned(vector) ==
  LET lcmDenom == LcmDenominators(vector, 1)
      integers == [i \in 1..Len(vector) |->
                     FracS(vector[i]) * FracN(vector[i])
                       * (lcmDenom \div FracD(vector[i]))]
      commonGCD == GcdAll(Tail(integers), integers[1])
  IN IF commonGCD = 0 THEN integers
     ELSE [i \in 1..Len(integers) |-> integers[i] \div Abs(commonGCD)]

\* MathSolver.normalize
normalize(vector) ==
  LET lcmDenom == LcmDenominators(vector, 1)
      integers == [i \in 1..Len(vector) |->
                     FracS(vector[i]) * FracN(vector[i])
                       * (lcmDenom \div FracD(vector[i]))]
      finalRes == [i \in 1..Len(vector) |-> Abs(integers[i])]
      commonGCD == GcdAll(Tail(finalRes), finalRes[1])
  IN IF commonGCD = 0 THEN finalRes
     ELSE [i \in 1..Len(finalRes) |-> finalRes[i] \div commonGCD]

\* the vector solve normalizes when there are several basis vectors
CombineBasis(basisVectors, numCols) ==
  LET Best(bestVector) ==
        IF bestVector # <<>> THEN bestVector
        ELSE SumVectors(basisVectors, numCols)
  IN Best(searchWeights(basisVectors, 1,
                        [i \in 1..numCols |-> FracOfInt(0)], <<>>, 1))

\* MathSolver.solve
solve(reactants, products) ==
  LET numCols == Len(reactants) + Len(products)
      Combined(basisVectors) ==
        IF Len(basisVectors) = 0 THEN [i \in 1..numCols |-> 0]
        ELSE IF Len(basisVectors) = 1 THEN normalize(basisVectors[1])
        ELSE normalize(CombineBasis(basisVectors, numCols))
      Reduced(matrix) ==
        IF ~matrix.ok THEN matrix
        ELSE Return(Combined(BasisVectors(matrix.val)))
  IN Reduced(toRREF(BuildMatrix(reactants, products)))

(***************************************************************************)
(* Periodic table                                                          *)
(***************************************************************************)

VALID_ELEMENTS ==
  { "H", "He",
    "Li", "Be", "B", "C", "N", "O", "F", "Ne",
    "Na", "Mg", "Al", "Si", "P", "S", "Cl", "Ar",
    "K", "Ca", "Sc", "Ti", "V", "Cr", "Mn", "Fe", "Co", "Ni", "Cu", "Zn",
    "Ga", "Ge", "As", "Se", "Br", "Kr",
    "Rb", "Sr", "Y", "Zr", "Nb", "Mo", "Tc", "Ru", "Rh", "Pd", "Ag", "Cd",
    "In", "Sn", "Sb", "Te", "I", "Xe",
    "Cs", "Ba",
    "La", "Ce", "Pr", "Nd", "Pm", "Sm", "Eu", "Gd", "Tb", "Dy", "Ho", "Er",
    "Tm", "Yb", "Lu",
    "Hf", "Ta", "W", "Re", "Os", "Ir", "Pt", "Au", "Hg", "Tl", "Pb", "Bi",
    "Po", "At", "Rn",
    "Fr", "Ra",
    "Ac", "Th", "Pa", "U", "Np", "Pu", "Am", "Cm", "Bk", "Cf", "Es", "Fm",
    "Md", "No", "Lr",
    "Rf", "Db", "Sg", "Bh", "Hs", "Mt", "Ds", "Rg", "Cn", "Nh", "Fl", "Mc",
    "Lv", "Ts", "Og",
    "D" }

\* an element symbol (one or two characters) as a string
SymbolString(symbol) ==
  IF Len(symbol) = 1 THEN symbol[1] ELSE symbol[1] \o symbol[2]

isValidElement(symbol) == SymbolString(symbol) \in VALID_ELEMENTS

(***************************************************************************)
(* Parser                                                                  *)
(***************************************************************************)


\* index of the first uppercase letter of formula at or after pos, 0 if none:
\* where the next match of /([A-Z][a-z]?)(\d*)/g starts
RECURSIVE NextUpper(_, _)
NextUpper(formula, pos) ==
  IF pos > Len(formula) THEN 0
  ELSE IF IsUpper(formula[pos]) THEN pos
  ELSE NextUpper(formula, pos + 1)

\* the exec loop of parseSimpleFormula from lastIndex (pos - 1)
RECURSIVE SimpleFrom(_, _, _, _)
SimpleFrom(formula, checkValidity, pos, counts) ==
  LET index == NextUpper(formula, pos) IN
  IF index = 0
  THEN IF checkValidity /\ pos - 1 # Len(formula)
       THEN Throw(ErrorOf("error.invalid_characters_end",
                          <<<<FormulaParam, formula>>,
                            <<CharsParam, Drop(formula, pos - 1)>>>>))
       ELSE Return(counts)
  ELSE IF checkValidity /\ index # pos
       THEN Throw(ErrorOf("error.invalid_characters",
                          <<<<FormulaParam, formula>>,
                            <<CharsParam, SubSeq(formula, pos, index - 1)>>>>))
  ELSE
    LET symLen == IF index + 1 <= Len(formula) /\ IsLower(formula[index + 1])
                  THEN 2 ELSE 1
        element == SubSeq(formula, index, index + symLen - 1)
        digits == LeadingDigits(Drop(formula, index + symLen - 1))
        countStr == SubSeq(formula, index + symLen, index + symLen + digits - 1)
        count == IF countStr # <<>> THEN ParseInt(countStr) ELSE 1
    IN IF checkValidity /\ ~isValidElement(element)
       THEN Throw(ErrorOf("error.unknown_element",
                          <<<<ElementParam, element>>, <<FormulaParam, formula>>>>))
       ELSE SimpleFrom(formula, checkValidity, index + symLen + digits,
                       AddCount(counts, element, count))

\* Parser.parseSimpleFormula
parseSimpleFormula(formula, checkValidity) ==
  SimpleFrom(formula, checkValidity, 1, <<>>)

\* an expansion that writes every count as it stands in the group
RECURSIVE ExpandedPartUnmultiplied(_, _)
ExpandedPartUnmultiplied(innerCounts, multiplier) ==
  IF innerCounts = <<>> THEN <<>>
  ELSE LET e == Head(innerCounts)
       IN (IF e[1] = ChargeKey THEN <<>> ELSE e[1] \o NatToText(e[2]))
          \o ExpandedPartUnmultiplied(Tail(innerCounts), multiplier)

\* the text one group expands to: every element of the inner counts with
\* its count times the multiplier, the charge key left out
RECURSIVE ExpandedPart(_, _)
ExpandedPart(innerCounts, multiplier) ==
  IF innerCounts = <<>> THEN <<>>
  ELSE LET e == Head(innerCounts)
       IN (IF e[1] = ChargeKey THEN <<>>
           ELSE e[1] \o NatToText(e[2] * multiplier))
          \o ExpandedPart(Tail(innerCounts), multiplier)

\* length of the run of characters other than ( and ) that starts at pos
RECURSIVE NonParenRun(_, _)
NonParenRun(s, pos) ==
  IF pos <= Len(s) /\ s[pos] # "(" /\ s[pos] # ")"
  THEN 1 + NonParenRun(s, pos + 1) ELSE 0

\* a pass that leaves a group without multiplier in its parentheses
RECURSIVE ExpandPassKeeping(_, _)
ExpandPassKeeping(s, pos) ==
  IF pos > Len(s) THEN [found |-> FALSE, text |-> <<>>]
  ELSE
    LET run == IF s[pos] = "(" THEN NonParenRun(s, pos + 1) ELSE 0
        close == pos + 1 + run
    IN IF s[pos] = "(" /\ run >= 1 /\ close <= Len(s) /\ s[close] = ")"
       THEN LET content == SubSeq(s, pos + 1, close - 1)
                digits == LeadingDigits(Drop(s, close))
                multiplierStr == SubSeq(s, close + 1, close + digits)
                multiplier == IF multiplierStr # <<>>
                              THEN ParseInt(multiplierStr) ELSE 1
                innerCounts == parseSimpleFormula(content, FALSE).val
                rest == ExpandPassKeeping(s, close + digits + 1)
            IN [found |-> TRUE,
                text |-> IF multiplierStr # <<>>
                         THEN ExpandedPart(innerCounts, multiplier)
                                \o rest.text
                         ELSE <<"(">> \o ExpandedPart(innerCounts, multiplier)
                                \o <<")">> \o rest.text]
       ELSE LET rest == ExpandPassKeeping(s, pos + 1)
            IN [found |-> rest.found, text |-> <<s[pos]>> \o rest.text]

\* one processedFormula.replace(/\(([^()]+)\)(\d*)/g, ...): every match,
\* left to right, replaced by its expansion
RECURSIVE ExpandPass(_, _)
ExpandPass(s, pos) ==
  IF pos > Len(s) THEN [found |-> FALSE, text |-> <<>>]
  ELSE
    LET run == IF s[pos] = "(" THEN NonParenRun(s, pos + 1) ELSE 0
        close == pos + 1 + run
    IN IF s[pos] = "(" /\ run >= 1 /\ close <= Len(s) /\ s[close] = ")"
       THEN LET content == SubSeq(s, pos + 1, close - 1)
                digits == LeadingDigits(Drop(s, close))
                multiplierStr == SubSeq(s, close + 1, close + digits)
                multiplier == IF multiplierStr # <<>>
                              THEN ParseInt(multiplierStr) ELSE 1
                innerCounts == parseSimpleFormula(content, FALSE).val
                rest == ExpandPass(s, close + digits + 1)
            IN [found |-> TRUE,
                text |-> ExpandedPart(innerCounts, multiplier) \o rest.text]
       ELSE LET rest == ExpandPass(s, pos + 1)
            IN [found |-> rest.found, text |-> <<s[pos]>> \o rest.text]

\* an expansion loop that ends, without an error, when a pass finds no group
RECURSIVE ExpandParenthesesUnchecked(_, _)
ExpandParenthesesUnchecked(processedFormula, formula) ==
  IF ~Includes(processedFormula, "(") THEN Return(processedFormula)
  ELSE LET Again(pass) ==
             IF ~pass.found THEN Return(pass.text)
             ELSE ExpandParenthesesUnchecked(pass.text, formula)
       IN Again(ExpandPass(processedFormula, 1))

\* the while loop of parseStandardFormula that expands the innermost groups
\* until no ( is left; formula is the text named in the error
RECURSIVE ExpandParentheses(_, _)
ExpandParentheses(processedFormula, formula) ==
  IF ~Includes(processedFormula, "(") THEN Return(processedFormula)
  ELSE LET Again(pass) ==
             IF ~pass.found /\ Includes(pass.text, "(")
             THEN Throw(ErrorOf("error.invalid_formula_syntax",
                                <<<<FormulaParam, formula>>>>))
             ELSE ExpandParentheses(pass.text, formula)
       IN Again(ExpandPass(processedFormula, 1))

\* a charge extraction that tries the bare sign before the caret pattern
ExtractUnitChargeFirst(cleanFormula) ==
  LET n == Len(cleanFormula)
      sign == IF n >= 1 THEN cleanFormula[n] ELSE ""
  IN IF sign = "+" \/ sign = "-"
     THEN [charge |-> IF sign = "+" THEN 1 ELSE -1,
           text |-> Take(cleanFormula, n - 1)]
     ELSE [charge |-> 0, text |-> cleanFormula]

\* the charge suffix of parseStandardFormula: /\^(\d*)([+-])$/ first, then
\* /([+-])$/; gives the charge and the text without the matched suffix
ExtractCharge(cleanFormula) ==
  LET n == Len(cleanFormula)
      sign == IF n >= 1 THEN cleanFormula[n] ELSE ""
      signed == sign = "+" \/ sign = "-"
      digits == IF signed THEN TrailingDigits(Take(cleanFormula, n - 1)) ELSE 0
      caretAt == n - 1 - digits
      caret == signed /\ caretAt >= 1 /\ cleanFormula[caretAt] = "^"
      magnitudeStr == SubSeq(cleanFormula, caretAt + 1, n - 1)
      magnitude == IF magnitudeStr # <<>> THEN ParseInt(magnitudeStr) ELSE 1
  IN IF caret
     THEN [charge |-> IF sign = "+" THEN magnitude ELSE -magnitude,
           text |-> Take(cleanFormula, caretAt - 1)]
     ELSE IF signed
     THEN [charge |-> IF sign = "+" THEN 1 ELSE -1,
           text |-> Take(cleanFormula, n - 1)]
     ELSE [charge |-> 0, text |-> cleanFormula]

\* a merge that adds every count once, whatever the multiplier
RECURSIVE MergeCountsOnce(_, _, _)
MergeCountsOnce(into, counts, multiplier) ==
  IF counts = <<>> THEN into
  ELSE MergeCountsOnce(AddCount(into, Head(counts)[1], Head(counts)[2]),
                       Tail(counts), multiplier)

\* counts[el] = (counts[el] || 0) + count * multiplier over all entries
RECURSIVE MergeCounts(_, _, _)
MergeCounts(into, counts, multiplier) ==
  IF counts = <<>> THEN into
  ELSE MergeCounts(AddCount(into, Head(counts)[1], Head(counts)[2] * multiplier),
                   Tail(counts), multiplier)

\* Parser.parseStandardFormula
parseStandardFormula(formula) ==
  LET stripped == Drop(formula, LeadingDigits(formula))
      Merged(counts, finalCounts) ==
        IF ~finalCounts.ok THEN finalCounts
        ELSE Return(MergeCounts(counts, finalCounts.val, 1))
      Expanded(counts, processedFormula) ==
        IF ~processedFormula.ok THEN processedFormula
        ELSE Merged(counts, parseSimpleFormula(processedFormula.val, TRUE))
      Atoms(text, counts) ==
        IF text = <<>> THEN Return(counts)
        ELSE Expanded(counts, ExpandParentheses(text, formula))
      Charged(ex) ==
        Atoms(ex.text,
              IF ex.charge # 0 THEN << <<ChargeKey, ex.charge>> >> ELSE <<>>)
  IN IF stripped = <<"e">> \/ stripped = <<"e", "-">>
        \/ stripped = <<"e", "^", "-">>
     THEN Return(<< <<ChargeKey, -1>> >>)
     ELSE Charged(ExtractCharge(stripped))

\* cleanFormula.match(/\((s|l|g|aq)\)$/): the length of the annotation
StateAnnotationLength(cleanFormula) ==
  LET n == Len(cleanFormula) IN
  IF n >= 3 /\ SubSeq(cleanFormula, n - 2, n) \in
                 {<<"(", "s", ")">>, <<"(", "l", ")">>, <<"(", "g", ")">>}
  THEN 3
  ELSE IF n >= 4 /\ SubSeq(cleanFormula, n - 3, n) = <<"(", "a", "q", ")">>
  THEN 4
  ELSE 0

\* parts.forEach of the hydrate branch, from part index (1-based) on
RECURSIVE HydrateParts(_, _, _)
HydrateParts(parts, index, totalCounts) ==
  IF index > Len(parts) THEN Return(totalCounts)
  ELSE
    LET m == IF index > 1 THEN MatchLeadingCoeff(parts[index])
             ELSE [matched |-> FALSE]
        multiplier == IF m.matched THEN ParseInt(m.digits) ELSE 1
        subFormula == IF m.matched THEN m.rest ELSE parts[index]
        Added(counts) ==
          IF ~counts.ok THEN counts
          ELSE HydrateParts(parts, index + 1,
                            MergeCounts(totalCounts, counts.val, multiplier))
    IN Added(parseStandardFormula(subFormula))

\* Parser.parseFormula: parseFormulaWithState(formula).elements
parseFormula(formula) ==
  LET noSpaces == StripSpaces(formula)
      cleanFormula == Take(noSpaces,
                           Len(noSpaces) - StateAnnotationLength(noSpaces))
  IN IF Includes(cleanFormula, ".")
     THEN HydrateParts(SplitOn(cleanFormula, <<".">>), 1, <<>>)
     ELSE parseStandardFormula(cleanFormula)

(***************************************************************************)
(* ChemicalBalancer.balance                                                *)
(***************************************************************************)

\* equation.match(/->|=>|=|RIGHTWARDS ARROW|EQUILIBRIUM ARROW/): the text of
\* the leftmost match, <<>> when there is none
RECURSIVE MatchSeparator(_, _)
MatchSeparator(equation, pos) ==
  IF pos > Len(equation) THEN <<>>
  ELSE IF OccursAt(equation, <<"-", ">">>, pos) THEN <<"-", ">">>
  ELSE IF OccursAt(equation, <<"=", ">">>, pos) THEN <<"=", ">">>
  ELSE IF equation[pos] = "=" THEN <<"=">>
  ELSE IF equation[pos] = "RIGHTWARDS_ARROW" THEN <<"RIGHTWARDS_ARROW">>
  ELSE IF equation[pos] = "EQUILIBRIUM_ARROW" THEN <<"EQUILIBRIUM_ARROW">>
  ELSE MatchSeparator(equation, pos + 1)

\* a split at every + of s, with or without whitespace around it
RECURSIVE SplitEveryPlus(_, _, _)
SplitEveryPlus(s, start, pos) ==
  IF pos > Len(s) THEN <<SubSeq(s, start, Len(s))>>
  ELSE IF s[pos] = "+"
  THEN <<SubSeq(s, start, pos - 1)>> \o SplitEveryPlus(s, pos + 1, pos + 1)
  ELSE SplitEveryPlus(s, start, pos + 1)

\* sideStr.split(/\s+\+\s+/): pieces of s from start on, scanning at pos
RECURSIVE SplitPlus(_, _, _)
SplitPlus(s, start, pos) ==
  IF pos > Len(s) THEN <<SubSeq(s, start, Len(s))>>
  ELSE IF IsSpace(s[pos])
  THEN LET plusAt == pos + LeadingSpaces(Drop(s, pos - 1))
           after == IF plusAt <= Len(s) /\ s[plusAt] = "+"
                    THEN LeadingSpaces(Drop(s, plusAt)) ELSE 0
       IN IF after >= 1
          THEN <<SubSeq(s, start, pos - 1)>>
                 \o SplitPlus(s, plusAt + after + 1, plusAt + after + 1)
          ELSE SplitPlus(s, start, plusAt)
  ELSE SplitPlus(s, start, pos + 1)

\* userCoefficients[name] = coeff on an object keyed by molecule text
SetEntry(map, name, value) ==
  IF \E i \in 1..Len(map) : map[i][1] = name
  THEN [i \in 1..Len(map) |->
          IF map[i][1] = name THEN <<name, value>> ELSE map[i]]
  ELSE Append(map, <<name, value>>)

HasEntry(map, name) == \E i \in 1..Len(map) : map[i][1] = name

GetEntry(map, name) == map[CHOOSE i \in 1..Len(map) : map[i][1] = name][2]

\* the map callback of parseSide over the pieces: the molecule names, and
\* the hints captured into userCoefficients
RECURSIVE ReadTokens(_, _, _)
ReadTokens(pieces, names, userCoefficients) ==
  IF pieces = <<>> THEN [names |-> names, userCoefficients |-> userCoefficients]
  ELSE LET m == Trim(Head(pieces))
           match == MatchLeadingCoeff(m)
       IN IF match.matched
          THEN LET name == Trim(match.rest)
               IN ReadTokens(Tail(pieces), Append(names, name),
                             SetEntry(userCoefficients, name,
                                      ParseInt(match.digits)))
          ELSE ReadTokens(Tail(pieces), Append(names, m), userCoefficients)

\* molecules.map(m => Parser.parseFormula(m)): stops at the first throw
RECURSIVE ParseAll(_, _)
ParseAll(molecules, counts) ==
  IF molecules = <<>> THEN Return(counts)
  ELSE LET Rest(c) ==
             IF ~c.ok THEN c
             ELSE ParseAll(Tail(molecules), Append(counts, c.val))
       IN Rest(parseFormula(Head(molecules)))

\* the molecules constant of parseSide: the names read from the pieces of
\* the side, the empty ones filtered out
MoleculesOf(sideStr) ==
  SelectSeq(ReadTokens(SplitPlus(sideStr, 1, 1), <<>>, <<>>).names,
            LAMBDA n : n # <<>>)

\* the end of parseSide: the molecules with their counts and the
\* userCoefficients read, or the exception of the first formula that fails
SideData(read, molecules, counts) ==
  IF ~counts.ok THEN counts
  ELSE Return([molecules |-> molecules, counts |-> counts.val,
               userCoefficients |-> read.userCoefficients])

\* parseSide, with the userCoefficients of the enclosing call passed through
parseSide(sideStr, userCoefficients) ==
  SideData(ReadTokens(SplitPlus(sideStr, 1, 1), <<>>, userCoefficients),
           MoleculesOf(sideStr),
           ParseAll(MoleculesOf(sideStr), <<>>))

\* a presence check that looks for the elements of the products among the
\* reactants and never the other way round
RECURSIVE CheckElementsOfProducts(_, _, _)
CheckElementsOfProducts(union, rElements, pElements) ==
  IF union = <<>> THEN Return(TRUE)
  ELSE LET el == Head(union)
           inR == \E i \in 1..Len(rElements) : rElements[i] = el
       IN IF el = ChargeKey
          THEN CheckElementsOfProducts(Tail(union), rElements, pElements)
          ELSE IF ~inR
          THEN Throw(ErrorOf("error.element_missing_in_reactants",
                             <<<<ElementParam, el>>>>))
          ELSE CheckElementsOfProducts(Tail(union), rElements, pElements)

\* the presence check of balance over allElementsUnion, in its order
RECURSIVE CheckElements(_, _, _)
CheckElements(union, rElements, pElements) ==
  IF union = <<>> THEN Return(TRUE)
  ELSE LET el == Head(union)
           inR == \E i \in 1..Len(rElements) : rElements[i] = el
           inP == \E i \in 1..Len(pElements) : pElements[i] = el
       IN IF el = ChargeKey THEN CheckElements(Tail(union), rElements, pElements)
          ELSE IF ~inR
          THEN Throw(ErrorOf("error.element_missing_in_reactants",
                             <<<<ElementParam, el>>>>))
          ELSE IF ~inP
          THEN Throw(ErrorOf("error.element_missing_in_products",
                             <<<<ElementParam, el>>>>))
          ELSE CheckElements(Tail(union), rElements, pElements)

\* a scaling check that keeps the first ratio it sees and never clears
\* consistent
RECURSIVE checkScalingFirstRatio(_, _, _, _)
checkScalingFirstRatio(mols, baseCoeffs, userCoefficients, acc) ==
  IF mols = <<>> THEN acc
  ELSE
    LET mol == Head(mols)
        baseCoeff == Head(baseCoeffs)
        next ==
          IF HasEntry(userCoefficients, mol) /\ baseCoeff # 0
             /\ acc.detectedScale = <<>>
          THEN [acc EXCEPT !.detectedScale =
                             <<Frac(GetEntry(userCoefficients, mol), baseCoeff)>>]
          ELSE acc
    IN checkScalingFirstRatio(Tail(mols), Tail(baseCoeffs), userCoefficients, next)

\* checkScaling over the molecules in order: detectedScale (<<>> for null)
\* and consistent
RECURSIVE checkScaling(_, _, _, _)
checkScaling(mols, baseCoeffs, userCoefficients, acc) ==
  IF mols = <<>> THEN acc
  ELSE
    LET mol == Head(mols)
        baseCoeff == Head(baseCoeffs)
        next ==
          IF HasEntry(userCoefficients, mol) /\ baseCoeff # 0
          THEN LET scale == Frac(GetEntry(userCoefficients, mol), baseCoeff)
               IN IF acc.detectedScale = <<>>
                  THEN [acc EXCEPT !.detectedScale = <<scale>>]
                  ELSE IF acc.detectedScale # <<scale>>
                  THEN [acc EXCEPT !.consistent = FALSE]
                  ELSE acc
          ELSE acc
    IN checkScaling(Tail(mols), Tail(baseCoeffs), userCoefficients, next)

\* a scaling factor that is never taken from the hints
ScalingFactorUnscaled(consistent, detectedScale) == FracOfInt(1)

\* the scaling factor balance derives from consistent and detectedScale:
\* an integer scale, and also a scale whose product with 100000 is an
\* integer (Number.isInteger(detectedScale * 100000)); the scales met here
\* have the denominators 1 and 2, which doubles represent exactly
ScalingFactor(consistent, detectedScale) ==
  IF consistent /\ detectedScale # <<>> /\ detectedScale[1][1] > 0
  THEN LET scale == detectedScale[1] IN
       IF FracIsInteger(scale) THEN scale
       ELSE IF FracIsInteger(FracMul(scale, FracOfInt(100000))) THEN scale
       ELSE FracOfInt(1)
  ELSE FracOfInt(1)

\* rCoeffsRaw.map(x => x * scalingFactor)
ApplyScaling(raw, scalingFactor) ==
  [i \in 1..Len(raw) |-> FracMul(FracOfInt(raw[i]), scalingFactor)]

\* the digits after the decimal point of r / d, 0 <= r < d
RECURSIVE FractionDigits(_, _)
FractionDigits(r, d) ==
  IF r = 0 THEN <<>>
  ELSE <<DigitChars[((10 * r) \div d) + 1]>> \o FractionDigits((10 * r) % d, d)

\* String(coeff) for a non-negative number with a finite decimal expansion
NumberToText(q) ==
  IF FracIsInteger(q) THEN NatToText(q[1])
  ELSE NatToText(q[1] \div q[2]) \o <<".">> \o FractionDigits(q[1] % q[2], q[2])

\* a formatSide that writes every coefficient, a coefficient of 1 too
FormatSideWithOnes(molecules, values) ==
  Join([i \in 1..Len(molecules) |-> NumberToText(values[i]) \o molecules[i]],
       <<" ", "+", " ">>)

\* formatSide: the text of one side
FormatSide(molecules, values) ==
  Join([i \in 1..Len(molecules) |->
          (IF values[i] = FracOfInt(1) THEN <<>> ELSE NumberToText(values[i]))
            \o molecules[i]],
       <<" ", "+", " ">>)

\* an object keyed by molecule text after the assignments obj[keys[i]] =
\* values[i] in order, as a function on the set of keys
ObjectOf(keys, values) ==
  [k \in {keys[i] : i \in 1..Len(keys)} |->
     values[CHOOSE i \in 1..Len(keys) :
              keys[i] = k /\ \A j \in 1..Len(keys) : keys[j] = k => j <= i]]

RECURSIVE WeightedSum(_, _, _)
WeightedSum(counts, coeffs, el) ==
  IF counts = <<>> THEN FracOfInt(0)
  ELSE FracAdd(FracMul(FracOfInt(CountOf(Head(counts), el)), Head(coeffs)),
               WeightedSum(Tail(counts), Tail(coeffs), el))

\* an exception leaving the try block, with the number of calls of
\* MathSolver.solve made before it
ThrowAfter(thrown, solverCalls) ==
  [ok |-> FALSE, err |-> thrown.err, solverCalls |-> solverCalls]

\* balance after both sides are parsed: the empty-side check and the
\* presence check; returns what the rest of balance reads
CheckSides(reactantsData, productsData) ==
  IF Len(reactantsData.molecules) = 0 \/ Len(productsData.molecules) = 0
  THEN Throw(ErrorOf("error.missing_reactants_or_products", <<>>))
  ELSE
    LET Checked(allElementsUnion, passed) ==
          IF ~passed.ok THEN passed
          ELSE Return([rMols |-> reactantsData.molecules,
                       pMols |-> productsData.molecules,
                       rCounts |-> reactantsData.counts,
                       pCounts |-> productsData.counts,
                       userCoefficients |-> productsData.userCoefficients,
                       allElements |-> SortTexts(allElementsUnion)])
        Present(rElements, pElements, allElementsUnion) ==
          Checked(allElementsUnion,
                  CheckElements(allElementsUnion, rElements, pElements))
        Union(rElements, pElements) ==
          Present(rElements, pElements, Dedup(rElements \o pElements))
    IN Union(Dedup(FlatKeys(reactantsData.counts)),
             Dedup(FlatKeys(productsData.counts)))

\* what the last call of balance returned
VARIABLE outcome

\* a userCoefficients object that lives outside the call and still holds
\* the hints the call before read
KeptUserCoefficients ==
  IF outcome.returned /\ outcome.result.status = "success"
  THEN outcome.locals.userCoefficients ELSE <<>>

\* const userCoefficients = {}: the object every call of balance creates
FreshUserCoefficients == <<>>

\* both sides parsed: the presence check follows
ProductsParsed(reactantsData, productsData) ==
  IF ~productsData.ok THEN productsData
  ELSE CheckSides(reactantsData.val, productsData.val)

\* the products are parsed with the userCoefficients the reactants left
ReactantsParsed(parts, reactantsData) ==
  IF ~reactantsData.ok THEN reactantsData
  ELSE ProductsParsed(reactantsData,
                      parseSide(parts[2], reactantsData.val.userCoefficients))

\* exactly two parts, and the reactants parsed first
TwoSides(parts) ==
  IF Len(parts) # 2
  THEN Throw(ErrorOf("error.multiple_separators", <<>>))
  ELSE ReactantsParsed(parts, parseSide(parts[1], FreshUserCoefficients))

\* the split at the separator found
SplitAt(equation, separator) ==
  IF separator = <<>>
  THEN Throw(ErrorOf("error.missing_separator", <<>>))
  ELSE TwoSides(SplitOn(equation, separator))

\* balance up to the presence check: the checks of the text, the split at
\* the separator and the two calls of parseSide
ParseEquation(equation) ==
  IF equation = <<>> \/ Trim(equation) = <<>>
  THEN Throw(ErrorOf("error.empty_equation", <<>>))
  ELSE SplitAt(equation, MatchSeparator(equation, 1))

\* balance from the scaled coefficients on: the result, and the locals of
\* the call
Assemble(sides, solveResult, checks, scalingFactor, rCoeffs, pCoeffs) ==
  [result |->
     [status |-> "success",
      coefficients |->
        ObjectOf(sides.rMols \o sides.pMols, rCoeffs \o pCoeffs),
      balancedString |->
        FormatSide(sides.rMols, rCoeffs) \o <<" ", "-", ">", " ">>
          \o FormatSide(sides.pMols, pCoeffs),
      debug |->
        [elements |-> sides.allElements,
         reactants |-> ObjectOf(sides.rMols, sides.rCounts),
         products |-> ObjectOf(sides.pMols, sides.pCounts),
         balanceCheck |->
           [el \in {sides.allElements[i] : i \in 1..Len(sides.allElements)} |->
              [left |-> WeightedSum(sides.rCounts, rCoeffs, el),
               right |-> WeightedSum(sides.pCounts, pCoeffs, el)]]]],
   locals |->
     [rMols |-> sides.rMols, pMols |-> sides.pMols,
      rCounts |-> sides.rCounts, pCounts |-> sides.pCounts,
      userCoefficients |-> sides.userCoefficients,
      solveResult |-> solveResult,
      detectedScale |-> checks.detectedScale,
      consistent |-> checks.consistent,
      scalingFactor |-> scalingFactor,
      rCoeffs |-> rCoeffs, pCoeffs |-> pCoeffs]]

\* balance after the solver has returned: the scaling factor of the hints
\* and the scaled coefficients
Scale(sides, solveResult) ==
  LET Scaled(checks, scalingFactor) ==
        Assemble(sides, solveResult, checks, scalingFactor,
                 ApplyScaling(SubSeq(solveResult, 1, Len(sides.rMols)),
                              scalingFactor),
                 ApplyScaling(SubSeq(solveResult, Len(sides.rMols) + 1,
                                     Len(solveResult)),
                              scalingFactor))
      Checked(checks) ==
        Scaled(checks, ScalingFactor(checks.consistent, checks.detectedScale))
  IN Checked(checkScaling(sides.rMols \o sides.pMols, solveResult,
                          sides.userCoefficients,
                          [detectedScale |-> <<>>, consistent |-> TRUE]))

\* the body of the try block of balance: Return of the result together with
\* the locals of the call, or the exception thrown
BalanceBody(equation) ==
  LET Solved(sides, solved) ==
        IF ~solved.ok THEN ThrowAfter(solved, 1)
        ELSE Return(Scale(sides, solved.val))
      Parsed(parsed) ==
        IF ~parsed.ok THEN ThrowAfter(parsed, 0)
        ELSE Solved(parsed.val, solve(parsed.val.rCounts, parsed.val.pCounts))
  IN Parsed(ParseEquation(equation))

\* a catch clause that handles the errors balance raises itself and lets
\* every other exception leave the call
CatchOwnErrors(body) ==
  IF body.err.name = "Error"
  THEN [returned |-> TRUE,
        result |-> [status |-> "error", message |-> body.err.message],
        solverCalls |-> body.solverCalls]
  ELSE [returned |-> FALSE]

\* the catch clause of balance: every exception becomes an error result
CatchAll(body) ==
  [returned |-> TRUE,
   result |-> [status |-> "error", message |-> body.err.message],
   solverCalls |-> body.solverCalls]

\* ChemicalBalancer.balance: what the call returns, with the locals of a
\* successful call and the number of solver calls it made
balance(equation) ==
  LET Finish(body) ==
        IF body.ok
        THEN [returned |-> TRUE, result |-> body.val.result,
              locals |-> body.val.locals, solverCalls |-> 1]
        ELSE CatchAll(body)
  IN Finish(BalanceBody(equation))

(***************************************************************************)
(* The equations given to balance                                          *)
(***************************************************************************)

\* largest coefficient hint written in front of a molecule
MaxHint == 2

\* the numbers of reactant and product molecules of the equations
Shapes == {<<1, 1>>, <<2, 1>>, <<1, 2>>}

\* largest number of molecules of one equation that carry a hint
MaxHinted == 2

\* the molecules of the equations that carry hints
Formulas ==
  { <<"H", "2">>, <<"O", "2">>, <<"H", "2", "O">>, <<"H", "2", "O", "2">>,
    <<"H", "+">>, <<"e", "-">> }

\* tokens that are no formula: an unknown element, digits alone, and a
\* parenthesis that is not closed
Malformed == { <<"X", "x">>, <<"2">>, <<"O", "(">> }

HintTexts == {<<>>} \cup {NatToText(h) : h \in 0..MaxHint}

\* the hints of the n molecules of an equation, <<>> for a molecule without
HintChoices(n) ==
  {hs \in [1..n -> HintTexts] :
     Cardinality({i \in 1..n : hs[i] # <<>>}) <= MaxHinted}

\* the text of an equation: hints[i] written in front of molecule i, the
\* molecules of a side joined by " + " and the sides by " -> "
EquationText(reactants, products, hints) ==
  Join([i \in 1..Len(reactants) |-> hints[i] \o reactants[i]],
       <<" ", "+", " ">>)
    \o <<" ", "-", ">", " ">>
    \o Join([i \in 1..Len(products) |->
               hints[Len(reactants) + i] \o products[i]],
            <<" ", "+", " ">>)

\* the texts balance is called with when no equation is written
BlankTexts == {<<>>, <<" ">>}

(***************************************************************************)
(* State machine: one equation is balanced, and its balanced string is     *)
(* then given to balance again                                             *)
(***************************************************************************)

\* equation, phase, first: the text given to balance, how far the calls
\* went, and the return of the call before the last;
\* history: the texts and returns of the calls of a session, in order;
\* formula, parsed: the text given to Parser.parseFormula and its return;
\* sideStr, molecules: the text of one side and the molecules read from it
VARIABLES equation, phase, first, history, formula, parsed, sideStr, molecules,
          input, solved, translated

balancerVars == <<equation, phase, outcome, first, history>>

parserVars == <<formula, parsed>>

sideVars == <<sideStr, molecules>>

solverVars == <<input, solved>>

\* the locale of the messages, and what the last call of t returned
localeVars == <<currentLocale, translated>>

vars == <<balancerVars, parserVars, sideVars, solverVars, localeVars>>

NoOutcome == [returned |-> FALSE]

\* Parser.parseFormula was not called yet
NotParsed == [called |-> FALSE]

\* no side was split yet
NotSplit == [split |-> FALSE]

\* nothing was given to balance, to the parser, to the split of a side
NoBalance ==
  /\ equation = <<>> /\ phase = "ready" /\ outcome = NoOutcome
  /\ first = NoOutcome /\ history = <<>>

NoParse == formula = <<>> /\ parsed = NotParsed

NoSplit == sideStr = <<>> /\ molecules = NotSplit

\* MathSolver was not called
NotSolved == [called |-> FALSE]

NoSolve == input = <<>> /\ solved = NotSolved

\* t was not called
NotTranslated == [called |-> FALSE]

\* an equation of well-formed molecules, some with hints
HintedEquation(text) ==
  \E shape \in Shapes :
    \E rs \in [1..shape[1] -> Formulas], ps \in [1..shape[2] -> Formulas] :
      \E hs \in HintChoices(shape[1] + shape[2]) :
        text = EquationText(rs, ps, hs)

\* an equation without hints in which malformed tokens may stand
PlainEquation(text) ==
  \E shape \in Shapes :
    \E rs \in [1..shape[1] -> Formulas \cup Malformed],
       ps \in [1..shape[2] -> Formulas \cup Malformed] :
      text = EquationText(rs, ps, [i \in 1..(shape[1] + shape[2]) |-> <<>>])

Init ==
  /\ \/ HintedEquation(equation)
     \/ PlainEquation(equation)
     \/ equation \in BlankTexts
  /\ phase = "ready"
  /\ outcome = NoOutcome
  /\ first = NoOutcome
  /\ history = <<>>
  /\ NoParse
  /\ NoSplit
  /\ NoSolve
  /\ currentLocale = "en"
  /\ translated = NotTranslated

\* ChemicalBalancer.balance(equation)
Balance ==
  /\ phase = "ready"
  /\ outcome' = balance(equation)
  /\ phase' = "balanced"
  /\ UNCHANGED <<equation, first, history, parserVars, sideVars, solverVars,
               localeVars>>

\* ChemicalBalancer.balance(result.balancedString) on a successful result
Rebalance ==
  /\ phase = "balanced"
  /\ outcome.returned
  /\ outcome.result.status = "success"
  /\ equation' = outcome.result.balancedString
  /\ first' = outcome
  /\ outcome' = balance(outcome.result.balancedString)
  /\ phase' = "rebalanced"
  /\ UNCHANGED <<history, parserVars, sideVars, solverVars, localeVars>>

Next == Balance \/ Rebalance

Spec == Init /\ [][Next]_vars

(***************************************************************************)
(* Properties of balance                                                   *)
(***************************************************************************)

\* balance has been called and has returned
Called == phase # "ready" /\ outcome.returned

\* the call returned status 'success'
Succeeded == Called /\ outcome.result.status = "success"

\* the call returned status 'error'
Failed == Called /\ outcome.result.status = "error"

\* of a successful call: the molecules in the order written, the solver's
\* coefficient and the returned coefficient of each, and the hints read
Mols == outcome.locals.rMols \o outcome.locals.pMols

Base == outcome.locals.solveResult

Coeffs == outcome.locals.rCoeffs \o outcome.locals.pCoeffs

Hints == outcome.locals.userCoefficients

\* molecule i carries a hint: a number was read in front of its text (the
\* last one read when the text is written more than once)
Hinted(i) == HasEntry(Hints, Mols[i])

HintOf(i) == GetEntry(Hints, Mols[i])

\* the solver returned the zero vector
ZeroVector == \A i \in 1..Len(Base) : Base[i] = 0

\* the greatest common divisor of the numerators of a set of numbers
RECURSIVE GcdOf(_)
GcdOf(values) ==
  IF values = {} THEN 0
  ELSE LET v == CHOOSE x \in values : TRUE
       IN gcd(GcdOf(values \ {v}), Abs(v[1]))

\* the values of the returned coefficients map
CoefficientValues ==
  {outcome.result.coefficients[m] : m \in DOMAIN outcome.result.coefficients}

\* the largest hint read
LargestHint ==
  IF Hints = <<>> THEN 0
  ELSE CHOOSE h \in {Hints[i][2] : i \in 1..Len(Hints)} :
         \A i \in 1..Len(Hints) : Hints[i][2] <= h

\* every hinted molecule gives the ratio hint / solved coefficient = ratio
HintsAgreeOn(ratio) ==
  /\ \E i \in 1..Len(Mols) : Hinted(i)
  /\ \A i \in 1..Len(Mols) :
       Hinted(i) => Base[i] # 0 /\ Frac(HintOf(i), Base[i]) = ratio

\* two hinted molecules give different ratios hint / solved coefficient
HintsDisagree ==
  \E i, j \in 1..Len(Mols) :
    /\ Hinted(i) /\ Hinted(j) /\ Base[i] # 0 /\ Base[j] # 0
    /\ Frac(HintOf(i), Base[i]) # Frac(HintOf(j), Base[j])

\* the returned coefficients are the solver's vector
Unscaled == \A i \in 1..Len(Mols) : Coeffs[i] = FracOfInt(Base[i])

\* the coefficients map holds, for each molecule, the coefficient of the
\* last place its text is written at
MapHoldsCoeffs ==
  \A i \in 1..Len(Mols) :
    (\A j \in 1..Len(Mols) : Mols[j] = Mols[i] => j <= i)
      => outcome.result.coefficients[Mols[i]] = Coeffs[i]

\* C1: in every successful result every row of debug.balanceCheck, one per
\* element of the equation and one for the charge symbol _Q when present,
\* has left = right: the coefficient-weighted atom sums of the two sides are
\* equal.
Conservation ==
  Succeeded =>
    \A el \in DOMAIN outcome.result.debug.balanceCheck :
      outcome.result.debug.balanceCheck[el].left
        = outcome.result.debug.balanceCheck[el].right

\* C2: in every successful result every value of the coefficients map is a
\* positive integer: none is zero, none is fractional, whatever the hints.
PositiveIntegerCoefficients ==
  Succeeded =>
    \A c \in CoefficientValues : FracIsInteger(c) /\ c[1] >= 1

\* C3: in every successful result of an equation without any hint the
\* greatest common divisor of the returned coefficients is 1.
Minimality ==
  (Succeeded /\ Hints = <<>>) => GcdOf(CoefficientValues) = 1

\* C4: balance never throws: every call returns a result whose status is
\* 'success' or 'error', and every exception raised in the try block comes
\* back as status 'error' carrying that exception's message, which is not
\* empty.
NeverThrows ==
  phase # "ready" =>
    /\ outcome.returned
    /\ outcome.result.status \in {"success", "error"}
    /\ LET body == BalanceBody(equation) IN
       (~body.ok) =>
         /\ outcome.result.status = "error"
         /\ outcome.result.message = body.err.message
         /\ outcome.result.message # <<>>

\* C4 witness: the TypeError raised inside the solver for an equation whose
\* tokens hold no atom has come back as an error result
SolverExceptionReturned ==
  /\ Failed
  /\ outcome.solverCalls = 1
  /\ outcome.result.message = UndefinedLengthMessage

\* C5: when the solver finds only the zero vector for an equation that passed
\* the presence check, balance does not return a successful result (it
\* reports status 'error').
DegenerateIsFailure ==
  Called => ~(outcome.result.status = "success" /\ ZeroVector)

OnlyIntegerScaleApplied ==
  Succeeded =>
    \A i \in 1..Len(Mols) :
      (Hinted(i) /\ Base[i] # 0) =>
        LET ratio == Frac(HintOf(i), Base[i]) IN
        (HintsAgreeOn(ratio) /\ ~(FracIsInteger(ratio) /\ ratio[1] >= 1))
          => Unscaled

\* C9: balance is idempotent on its own output: balancing the balanced
\* string of a successful result succeeds with the same balanced string and
\* the same coefficients.
Idempotent ==
  phase = "rebalanced" =>
    /\ outcome.returned
    /\ outcome.result.status = "success"
    /\ outcome.result.balancedString = first.result.balancedString
    /\ outcome.result.coefficients = first.result.coefficients

\* the two sides of an equation as parseSide reads them, when the text has
\* one separator and every token of both sides parses: the element symbols
\* of each side, the charge symbol left out
SidesOf(text) ==
  IF text = <<>> \/ Trim(text) = <<>> \/ MatchSeparator(text, 1) = <<>>
  THEN [parsed |-> FALSE]
  ELSE LET parts == SplitOn(text, MatchSeparator(text, 1)) IN
       IF Len(parts) # 2 THEN [parsed |-> FALSE]
       ELSE LET reactantsData == parseSide(parts[1], <<>>)
                productsData == parseSide(parts[2], <<>>)
            IN IF ~reactantsData.ok \/ ~productsData.ok
               THEN [parsed |-> FALSE]
               ELSE IF reactantsData.val.molecules = <<>>
                       \/ productsData.val.molecules = <<>>
               THEN [parsed |-> FALSE]
               ELSE LET rKeys == FlatKeys(reactantsData.val.counts)
                        pKeys == FlatKeys(productsData.val.counts)
                    IN [parsed |-> TRUE,
                        rElements |->
                          {rKeys[i] : i \in 1..Len(rKeys)} \ {ChargeKey},
                        pElements |->
                          {pKeys[i] : i \in 1..Len(pKeys)} \ {ChargeKey}]

\* the elements written on one side only
OneSided(sides) ==
  (sides.rElements \ sides.pElements) \cup (sides.pElements \ sides.rElements)

\* the message naming an element of from \ other as missing, key telling
\* the side it is missing from
MissingMessages(key, from, other) ==
  {t(key, <<<<ElementParam, el>>>>) : el \in from \ other}

\* C10: when an element other than the charge symbol is written on one side
\* only, balance returns status 'error' with the message that names such an
\* element and the side it is missing from, and the solver is not called;
\* when no element is one-sided (the charge symbol may be) the solver is
\* called and no missing-element message is returned.
MissingElementReported ==
  phase # "ready" =>
    LET sides == SidesOf(equation) IN
    sides.parsed =>
      IF OneSided(sides) # {}
      THEN /\ Failed
           /\ outcome.solverCalls = 0
           /\ outcome.result.message \in
                MissingMessages("error.element_missing_in_products",
                                sides.rElements, sides.pElements)
                  \cup MissingMessages("error.element_missing_in_reactants",
                                       sides.pElements, sides.rElements)
      ELSE /\ outcome.returned
           /\ outcome.solverCalls = 1
           /\ outcome.result.status = "error" =>
                outcome.result.message \notin
                  MissingMessages("error.element_missing_in_products",
                                  sides.rElements \cup {ChargeKey}, {})
                    \cup MissingMessages("error.element_missing_in_reactants",
                                         sides.pElements \cup {ChargeKey}, {})

\* C10 witness: an equation that parses, with an element on one side only,
\* has been rejected before the solver was called
OneSidedElementRejected ==
  /\ Failed
  /\ outcome.solverCalls = 0
  /\ SidesOf(equation).parsed
  /\ OneSided(SidesOf(equation)) # {}

(***************************************************************************)
(* Equations written with none, one or several separators                  *)
(***************************************************************************)

\* the separators balance looks for
SeparatorTexts ==
  { <<"-", ">">>, <<"=", ">">>, <<"=">>, <<"RIGHTWARDS_ARROW">>,
    <<"EQUILIBRIUM_ARROW">> }

\* largest number of separators written in one equation
MaxSeparators == 2

\* the sides written between the separators
SideTexts ==
  { <<"H", "2">>, <<"H", "2", "O">>,
    <<"H", "2", " ", "+", " ", "O", "2">>,
    <<"2", "H", "2", " ", " ", "+", " ", " ", "O", "2">> }

\* largest number of blanks written in one place
MaxGap == 2

Gaps == {[i \in 1..n |-> " "] : n \in 0..MaxGap}

\* sides[1] sep[1] sides[2] ... : each separator between two gaps
RECURSIVE SeparatedText(_, _, _)
SeparatedText(sides, seps, gap) ==
  IF seps = <<>> THEN Head(sides)
  ELSE Head(sides) \o gap \o Head(seps) \o gap
         \o SeparatedText(Tail(sides), Tail(seps), gap)

SeparatedEquation(text) ==
  \E n \in 0..MaxSeparators :
    \E sides \in [1..(n + 1) -> SideTexts], seps \in [1..n -> SeparatorTexts],
       gap \in Gaps :
      text = SeparatedText(sides, seps, gap)

SeparatorInit ==
  /\ SeparatedEquation(equation)
  /\ phase = "ready"
  /\ outcome = NoOutcome
  /\ first = NoOutcome
  /\ history = <<>>
  /\ NoParse
  /\ NoSplit
  /\ NoSolve
  /\ currentLocale = "en"
  /\ translated = NotTranslated

SeparatorSpec == SeparatorInit /\ [][Balance]_vars

\* the number of separator occurrences of a text, read from left to right
RECURSIVE SeparatorsFrom(_, _)
SeparatorsFrom(text, pos) ==
  IF pos > Len(text) THEN 0
  ELSE IF \E sep \in SeparatorTexts : Len(sep) = 2 /\ OccursAt(text, sep, pos)
  THEN 1 + SeparatorsFrom(text, pos + 2)
  ELSE IF \E sep \in SeparatorTexts : Len(sep) = 1 /\ OccursAt(text, sep, pos)
  THEN 1 + SeparatorsFrom(text, pos + 1)
  ELSE SeparatorsFrom(text, pos + 1)

\* the call returned status 'error' with the message of the key
ErrorWith(key) ==
  /\ Failed
  /\ outcome.result.message = t(key, <<>>)

\* C11: an equation without a separator is an error with the
\* missing-separator message, and an equation with more than one separator
\* occurrence, of the same kind or of different kinds, is an error with the
\* multiple-separators message
SeparatorCountEnforced ==
  Called =>
    /\ SeparatorsFrom(equation, 1) = 0 => ErrorWith("error.missing_separator")
    /\ SeparatorsFrom(equation, 1) > 1 => ErrorWith("error.multiple_separators")

\* the molecule written in a token: the token without the number in front
NameIn(token) ==
  IF LeadingDigits(token) = 0 THEN token
  ELSE Trim(Drop(token, LeadingDigits(token)))

\* the molecules of a side of the equation, in the order written
RECURSIVE NamesIn(_, _, _)
NamesIn(text, start, pos) ==
  IF pos > Len(text)
  THEN <<NameIn(Trim(SubSeq(text, start, Len(text))))>>
  ELSE IF /\ text[pos] = "+" /\ pos > start /\ pos < Len(text)
          /\ IsSpace(text[pos - 1]) /\ IsSpace(text[pos + 1])
  THEN <<NameIn(Trim(SubSeq(text, start, pos - 1)))>>
         \o NamesIn(text, pos + 2, pos + 2)
  ELSE NamesIn(text, start, pos + 1)

\* a side as the claim lists it: each molecule with its coefficient in
\* front, no coefficient when it is 1, and " + " between the molecules
RECURSIVE Listed(_, _)
Listed(names, coefficients) ==
  IF names = <<>> THEN <<>>
  ELSE (IF Head(coefficients) = FracOfInt(1) THEN <<>>
        ELSE NumberToText(Head(coefficients)))
       \o Head(names)
       \o (IF Len(names) = 1 THEN <<>> ELSE <<" ", "+", " ">>)
       \o Listed(Tail(names), Tail(coefficients))

\* C18: on success balancedString lists the molecules of each side in their
\* input order, each prefixed by its coefficient with a coefficient of 1
\* omitted, joined by " + ", the sides joined by " -> ", whatever separator
\* and whitespace the input used
BalancedStringFormat ==
  Succeeded =>
    LET parts == SplitOn(equation, MatchSeparator(equation, 1))
        rNames == NamesIn(parts[1], 1, 1)
        pNames == NamesIn(parts[2], 1, 1)
    IN /\ outcome.locals.rMols = rNames
       /\ outcome.locals.pMols = pNames
       /\ outcome.result.balancedString
            = Listed(rNames, outcome.locals.rCoeffs)
                \o <<" ", "-", ">", " ">>
                \o Listed(pNames, outcome.locals.pCoeffs)

\* 2H2  +  O2 and H2O written around an equilibrium arrow without blanks
\* came back as 2H2 + O2 -> 2H2O
EquilibriumRewritten ==
  /\ Succeeded
  /\ MatchSeparator(equation, 1) = <<"EQUILIBRIUM_ARROW">>
  /\ equation = <<"2", "H", "2", " ", " ", "+", " ", " ", "O", "2",
                  "EQUILIBRIUM_ARROW", "H", "2", "O">>
  /\ outcome.result.balancedString
       = <<"2", "H", "2", " ", "+", " ", "O", "2", " ", "-", ">", " ",
           "2", "H", "2", "O">>

(***************************************************************************)
(* Formulas given to Parser.parseFormula                                   *)
(***************************************************************************)

\* the characters the formulas below are written with: an element, a lower
\* case letter, a digit, a character of no formula, and the parentheses
FormulaChars == {"H", "o", "2", "$", "(", ")"}

\* largest length of a formula written with these characters
MaxChars == 4

CharTexts == UNION {[1..n -> FormulaChars] : n \in 0..MaxChars}

\* formulas of the parser's tests
TestTexts ==
  { <<"h", "2", "o">>, <<"H", "2", "$", "O">>, <<"H", "2", "O", "!">>,
    <<"C", "a", "(", "o", "h", ")", "2">>,
    <<"C", "a", "(", "O", "$", "H", ")", "2">>,
    <<"M", "g", "(", "O", "H", ")", "2">>,
    <<"K", "4", "F", "e", "(", "C", "N", ")", "6">>,
    <<"C", "u", "S", "O", "4", ".", "5", "H", "2", "O">>,
    <<"N", "H", "4", "+">> }

\* formulas with groups nested to a depth: a group around a formula one
\* level less deep, with or without a multiplier, between siblings
Leaves == { <<"H">>, <<"O", "2">>, <<"O", "H">> }

Multipliers == { <<>>, <<"2">>, <<"1", "0">> }

\* largest depth of the nested groups
MaxDepth == 2

RECURSIVE NestedTexts(_)
NestedTexts(depth) ==
  IF depth = 0 THEN Leaves
  ELSE {before \o <<"(">> \o inner \o <<")">> \o multiplier \o after :
          before \in {<<>>, <<"H">>}, inner \in NestedTexts(depth - 1),
          multiplier \in Multipliers,
          after \in {<<>>, <<"O">>, <<"(", "H", ")", "2">>}}

\* hydrates: parts joined by dots, each with or without a leading integer
HydrateBodies ==
  { <<"H", "2", "O">>, <<"O", "2">>, <<"(", "O", "H", ")", "2">>,
    <<"H", "+">>, <<>> }

\* largest number of parts of a hydrate
MaxParts == 2

HydrateTexts ==
  UNION {{Join(parts, <<".">>) :
            parts \in [1..n -> {multiplier \o body :
                                  multiplier \in Multipliers,
                                  body \in HydrateBodies}]} :
         n \in 2..MaxParts}

\* ions: a coefficient or none, atoms or the electron or nothing, and a
\* suffix written with ^, digits and a sign
IonBodies ==
  { <<>>, <<"e">>, <<"H">>, <<"N", "H", "4">>, <<"(", "O", "H", ")">> }

\* largest magnitude written behind a caret
MaxCharge == 2

ChargeSuffixes ==
  { <<>>, <<"+">>, <<"-">>, <<"^">>, <<"^", "+">>, <<"^", "-">>, <<"+", "-">> }
    \cup {<<"^">> \o NatToText(n) \o sign :
            n \in 0..MaxCharge, sign \in {<<>>, <<"+">>, <<"-">>}}
    \cup {NatToText(n) \o sign : n \in 1..MaxCharge, sign \in {<<"+">>, <<"-">>}}

IonTexts ==
  {coefficient \o body \o suffix :
     coefficient \in {<<>>, <<"2">>}, body \in IonBodies,
     suffix \in ChargeSuffixes}

\* formulas with the symbol Xx, which is no element, written with or
\* without a coefficient, a group, a charge and a state
UnknownTexts ==
  {coefficient \o body \o suffix :
     coefficient \in {<<>>, <<"2">>},
     body \in { <<"X", "x">>, <<"X", "x", "O">>, <<"H", "2", "X", "x">>,
                <<"X", "x", "(", "O", "H", ")", "2">>,
                <<"H", "(", "X", "x", ")", "2">> },
     suffix \in {<<>>, <<"+">>, <<"^", "2", "-">>, <<"(", "a", "q", ")">>}}

\* formulas whose parentheses do not pair up, among them hydrates and
\* formulas with the symbol Xx
UnmatchedTexts ==
  { <<"C", "a", "(", "O", "H">>, <<"C", "a", ")", "2">>, <<"C", "a", ")",
                                                           "O", "H", "(">>,
    <<"X", "x", ")">>, <<"(", "X", "x">>, <<"H", "2", "X", "x", ")", "2">>,
    <<"X", "x", ".", "(", "H">>, <<"H", ")", ".", "(", "O">>, <<"H", "2",
                                                                "O", ".",
                                                                "(">>,
    <<"(", "(", "o", ")", ")", ")">>, <<"H", "(", "O", "H", ")", ")", "2",
                                        "(", "a", "q", ")">>, <<"(", "H",
                                                                "(", "s",
                                                                ")">>, <<
                                                                         "2",
                                                                         "(",
                                                                         "H",
                                                                         "+">> }

FormulaTexts ==
  CharTexts \cup TestTexts \cup UNION {NestedTexts(d) : d \in 0..MaxDepth}
    \cup HydrateTexts \cup IonTexts \cup UnknownTexts \cup UnmatchedTexts

ParserInit ==
  /\ formula \in FormulaTexts
  /\ parsed = NotParsed
  /\ NoBalance
  /\ NoSplit
  /\ NoSolve
  /\ currentLocale = "en"
  /\ translated = NotTranslated

\* Parser.parseFormula(formula): its return value, or the error it throws
Parse ==
  /\ ~parsed.called
  /\ parsed' = [called |-> TRUE, completion |-> parseFormula(formula)]
  /\ UNCHANGED <<formula, balancerVars, sideVars, solverVars, localeVars>>

ParserSpec == ParserInit /\ [][Parse]_vars

\* parseFormula returned counts / threw an error
Parsed == parsed.called /\ parsed.completion.ok

ParseFailed == parsed.called /\ ~parsed.completion.ok

\* the formula after whitespace, state, coefficient and charge stripping
Bare(text) ==
  LET noSpaces == StripSpaces(text)
      noState == Take(noSpaces, Len(noSpaces) - StateAnnotationLength(noSpaces))
  IN ExtractCharge(Drop(noState, LeadingDigits(noState))).text

\* the parentheses of a text pair up, and no pair is empty
RECURSIVE WellGrouped(_, _, _)
WellGrouped(text, pos, depth) ==
  IF pos > Len(text) THEN depth = 0
  ELSE IF text[pos] = "("
  THEN /\ pos < Len(text) /\ text[pos + 1] # ")"
       /\ WellGrouped(text, pos + 1, depth + 1)
  ELSE IF text[pos] = ")"
  THEN depth > 0 /\ WellGrouped(text, pos + 1, depth - 1)
  ELSE WellGrouped(text, pos + 1, depth)

\* every character of a text from pos on is part of an element token
\* (uppercase letter, optional lowercase letter, optional digits), a
\* parenthesis or the multiplier behind a closing parenthesis
RECURSIVE Covered(_, _)
Covered(text, pos) ==
  IF pos > Len(text) THEN TRUE
  ELSE IF IsUpper(text[pos])
  THEN LET symLen == IF pos < Len(text) /\ IsLower(text[pos + 1])
                     THEN 2 ELSE 1
       IN Covered(text, pos + symLen
                          + LeadingDigits(Drop(text, pos + symLen - 1)))
  ELSE IF text[pos] = "("
  THEN Covered(text, pos + 1)
  ELSE IF text[pos] = ")"
  THEN Covered(text, pos + 1 + LeadingDigits(Drop(text, pos)))
  ELSE FALSE

\* the error is one of the two invalid-characters errors
InvalidCharactersError(err) ==
  \E key \in {"error.invalid_characters", "error.invalid_characters_end"} :
    \E chars \in {SubSeq(Bare(formula), i, j) :
                    i \in 1..Len(Bare(formula)), j \in 1..Len(Bare(formula))} :
      \E named \in {SubSeq(formula, i, j) :
                      i \in 1..Len(formula), j \in 1..Len(formula)} :
        err.message = t(key, <<<<FormulaParam, named>>, <<CharsParam, chars>>>>)

\* C12: a formula with well-formed groups in which, after whitespace, state,
\* coefficient and charge stripping, some character is covered by no element
\* token fails with an invalid-characters error, wherever the character
\* stands, inside a parenthesised group too
UncoveredCharacterRejected ==
  parsed.called /\ ~Includes(formula, ".")
    /\ WellGrouped(Bare(formula), 1, 0) /\ ~Covered(Bare(formula), 1)
  => ParseFailed /\ InvalidCharactersError(parsed.completion.err)

\* the element token that starts at an uppercase letter: its symbol and count
TokenAt(text, pos) ==
  LET symLen == IF pos < Len(text) /\ IsLower(text[pos + 1]) THEN 2 ELSE 1
      digits == LeadingDigits(Drop(text, pos + symLen - 1))
  IN [symbol |-> SubSeq(text, pos, pos + symLen - 1),
      count |-> IF digits = 0 THEN 1
                ELSE ParseInt(SubSeq(text, pos + symLen,
                                     pos + symLen + digits - 1))]

\* the closing parenthesis of the group whose content starts at pos
RECURSIVE CloseOf(_, _, _)
CloseOf(text, pos, depth) ==
  IF text[pos] = ")" /\ depth = 0 THEN pos
  ELSE CloseOf(text, pos + 1,
               IF text[pos] = "(" THEN depth + 1
               ELSE IF text[pos] = ")" THEN depth - 1 ELSE depth)

\* the multiplier written behind the closing parenthesis at pos, 1 if none
MultiplierAt(text, pos) ==
  LET digits == LeadingDigits(Drop(text, pos))
  IN IF digits = 0 THEN 1 ELSE ParseInt(SubSeq(text, pos + 1, pos + digits))

\* the product of the multipliers of the groups opened before `from` that
\* enclose the atom at pos
RECURSIVE EnclosingProduct(_, _, _)
EnclosingProduct(text, pos, from) ==
  IF from = 0 THEN 1
  ELSE IF text[from] = "(" /\ CloseOf(text, from + 1, 0) > pos
  THEN MultiplierAt(text, CloseOf(text, from + 1, 0))
         * EnclosingProduct(text, pos, from - 1)
  ELSE EnclosingProduct(text, pos, from - 1)

\* bottom-up count of an element: over the atoms of the symbol from pos on,
\* the sum of count times the multipliers of the enclosing groups
RECURSIVE TreeCount(_, _, _)
TreeCount(text, symbol, pos) ==
  IF pos > Len(text) THEN 0
  ELSE (IF IsUpper(text[pos]) /\ TokenAt(text, pos).symbol = symbol
        THEN TokenAt(text, pos).count * EnclosingProduct(text, pos, pos - 1)
        ELSE 0)
       + TreeCount(text, symbol, pos + 1)

SymbolsOf(text) ==
  {TokenAt(text, pos).symbol : pos \in {i \in 1..Len(text) : IsUpper(text[i])}}

\* groups pair up, every character belongs to an atom or a group, and
\* every symbol is an element
WellFormed(text) ==
  /\ text # <<>>
  /\ WellGrouped(text, 1, 0)
  /\ Covered(text, 1)
  /\ \A symbol \in SymbolsOf(text) : isValidElement(symbol)

PartsOf(text) == SplitOn(StripSpaces(text), <<".">>)

\* the multiplier of part index: 1 for the first part, the leading integer
\* for a later part, 1 when it has none
PartMultiplier(parts, index) ==
  IF index = 1 \/ LeadingDigits(parts[index]) = 0 THEN 1
  ELSE ParseInt(Take(parts[index], LeadingDigits(parts[index])))

\* the counts of part index parsed as a formula of its own
PartCounts(parts, index) ==
  parseFormula(Drop(parts[index], LeadingDigits(parts[index])))

\* the sum over the parts from index on of multiplier times count of el
RECURSIVE PartsCount(_, _, _)
PartsCount(parts, index, el) ==
  IF index > Len(parts) THEN 0
  ELSE PartMultiplier(parts, index) * CountOf(PartCounts(parts, index).val, el)
       + PartsCount(parts, index + 1, el)

\* C14: the counts of a formula with dots are the sums over its parts of
\* multiplier times the counts of the part, the multiplier being 1 for the
\* first part and the leading integer (1 when absent) for a later part
HydrateIsSumOfParts ==
  parsed.called /\ Includes(formula, ".")
    /\ (\A i \in 1..Len(PartsOf(formula)) : PartCounts(PartsOf(formula), i).ok)
  => /\ Parsed
     /\ \A el \in {Keys(parsed.completion.val)[i] :
                     i \in 1..Len(Keys(parsed.completion.val))}
                  \cup UNION {SymbolsOf(PartsOf(formula)[i])
                                \cup {ChargeKey} :
                              i \in 1..Len(PartsOf(formula))} :
          CountOf(parsed.completion.val, el)
            = PartsCount(PartsOf(formula), 1, el)

\* O2.10H2O was parsed: two O of the first part and ten of the second
HydrateParsed ==
  /\ Parsed
  /\ formula = <<"O", "2", ".", "1", "0", "H", "2", "O">>
  /\ CountOf(parsed.completion.val, <<"O">>) = 12
  /\ CountOf(parsed.completion.val, <<"H">>) = 20

\* the ways the electron is written
ElectronTexts == { <<"e">>, <<"e", "-">>, <<"e", "^", "-">> }

\* a formula without its leading coefficient
Uncounted(text) == Drop(text, LeadingDigits(text))

\* a text ends with a sign
Signed(text) ==
  text # <<>> /\ (text[Len(text)] = "+" \/ text[Len(text)] = "-")

\* the length of a trailing ^N+ or ^N- with or without the digits N, 0 when
\* the text does not end with one
CaretSuffix(text) ==
  LET digits == TrailingDigits(Take(text, Len(text) - 1))
  IN IF Signed(text) /\ Len(text) - 1 - digits >= 1
          /\ text[Len(text) - 1 - digits] = "^"
     THEN digits + 2 ELSE 0

\* the suffix the claim reads the charge from, and the charge it records
SuffixLength(text) ==
  IF CaretSuffix(text) > 0 THEN CaretSuffix(text)
  ELSE IF Signed(text) THEN 1 ELSE 0

SuffixCharge(text) ==
  LET magnitude ==
        IF CaretSuffix(text) > 2
        THEN ParseInt(SubSeq(text, Len(text) - CaretSuffix(text) + 2,
                             Len(text) - 1))
        ELSE 1
  IN IF ~Signed(text) THEN 0
     ELSE IF text[Len(text)] = "+" THEN magnitude ELSE -magnitude

\* the counts agree on every element and on the charge
SameCounts(a, b) ==
  \A el \in {Keys(a)[i] : i \in 1..Len(a)} \cup {Keys(b)[i] : i \in 1..Len(b)} :
    CountOf(a, el) = CountOf(b, el)

\* C15: e, e- and e^- parse to exactly {_Q: -1}; otherwise a trailing ^N+ or
\* ^N- (N = 1 without digits) is tried first and records +N or -N, else a
\* trailing bare sign records +1 or -1 and digits in front of it stay a
\* subscript; the atoms are those of the text in front of the suffix
ChargeExtracted ==
  parsed.called /\ formula \in IonTexts \cup TestTexts
    /\ ~Includes(formula, ".") =>
    LET text == Uncounted(formula)
        atoms == Take(text, Len(text) - SuffixLength(text))
        expected == parseFormula(atoms)
    IN IF text \in ElectronTexts
       THEN Parsed /\ parsed.completion.val = << <<ChargeKey, -1>> >>
       ELSE atoms \notin ElectronTexts /\ ~Signed(atoms) =>
              /\ Parsed <=> expected.ok
              /\ Parsed =>
                   SameCounts(parsed.completion.val,
                              IF SuffixCharge(text) = 0 THEN expected.val
                              ELSE << <<ChargeKey, SuffixCharge(text)>> >>
                                     \o expected.val)

\* NH4+ was parsed: the 4 is a subscript and the charge is +1
AmmoniumParsed ==
  /\ Parsed
  /\ formula = <<"N", "H", "4", "+">>
  /\ parsed.completion.val
       = << <<ChargeKey, 1>>, <<<<"N">>, 1>>, <<<<"H">>, 4>> >>

\* C16: a formula with a well-formed element token whose symbol is no
\* element fails with the unknown-element error that names the symbol and
\* the formula as the caller passed it
UnknownElementNamesOriginal ==
  parsed.called /\ ~Includes(formula, ".")
    /\ WellGrouped(Bare(formula), 1, 0) /\ Covered(Bare(formula), 1)
    /\ (\E symbol \in SymbolsOf(Bare(formula)) : ~isValidElement(symbol))
  => /\ ParseFailed
     /\ \E symbol \in SymbolsOf(Bare(formula)) :
          /\ ~isValidElement(symbol)
          /\ parsed.completion.err.message
               = t("error.unknown_element",
                   <<<<ElementParam, symbol>>, <<FormulaParam, formula>>>>)

(***************************************************************************)
(* Sides given to the split into molecules                                 *)
(***************************************************************************)

\* what is written between the + signs of a side: a molecule, an ion, the
\* electron, or nothing
SideMolecules == { <<"H", "2">>, <<"H", "+">>, <<"e", "-">>, <<>> }

\* the side that starts with written[1]: after every item the blanks
\* before[i], a + and the blanks after[i], then the next item
RECURSIVE SideText(_, _, _)
SideText(written, before, after) ==
  IF Len(written) = 1 THEN Head(written)
  ELSE Head(written) \o Head(before) \o <<"+">> \o Head(after)
         \o SideText(Tail(written), Tail(before), Tail(after))

WrittenSide(text) ==
  \E n \in 1..3 :
    \E written \in [1..n -> SideMolecules],
       before \in [1..(n - 1) -> Gaps], after \in [1..(n - 1) -> Gaps],
       margin \in Gaps :
      text = margin \o SideText(written, before, after) \o margin

SideInit ==
  /\ WrittenSide(sideStr)
  /\ molecules = NotSplit
  /\ NoBalance
  /\ NoParse
  /\ NoSolve
  /\ currentLocale = "en"
  /\ translated = NotTranslated

\* the molecules parseSide reads from the side
SplitSide ==
  /\ ~molecules.split
  /\ molecules' = [split |-> TRUE, names |-> MoleculesOf(sideStr)]
  /\ UNCHANGED <<sideStr, balancerVars, parserVars, solverVars, localeVars>>

SideSpec == SideInit /\ [][SplitSide]_vars

\* the pieces of a text cut at every + that has a blank on both sides
RECURSIVE SpacedPlusPieces(_, _, _)
SpacedPlusPieces(text, start, pos) ==
  IF pos > Len(text) THEN <<SubSeq(text, start, Len(text))>>
  ELSE IF /\ text[pos] = "+" /\ pos > 1 /\ pos < Len(text)
          /\ IsSpace(text[pos - 1]) /\ IsSpace(text[pos + 1])
  THEN <<SubSeq(text, start, pos - 1)>>
         \o SpacedPlusPieces(text, pos + 1, pos + 1)
  ELSE SpacedPlusPieces(text, start, pos + 1)

\* the pieces of a text cut at every + that has a blank on both sides, the
\* blank in front not being one that follows the + of the cut before
RECURSIVE UnsharedPlusPieces(_, _, _)
UnsharedPlusPieces(text, start, pos) ==
  IF pos > Len(text) THEN <<SubSeq(text, start, Len(text))>>
  ELSE IF /\ text[pos] = "+" /\ pos > start /\ pos < Len(text)
          /\ IsSpace(text[pos - 1]) /\ IsSpace(text[pos + 1])
  THEN <<SubSeq(text, start, pos - 1)>>
         \o UnsharedPlusPieces(text, pos + 1 + LeadingSpaces(Drop(text, pos)),
                               pos + 1 + LeadingSpaces(Drop(text, pos)))
  ELSE UnsharedPlusPieces(text, start, pos + 1)

\* the pieces without the blanks around them, the empty ones left out
TokensOf(pieces) ==
  SelectSeq([i \in 1..Len(pieces) |-> Trim(pieces[i])], LAMBDA n : n # <<>>)

OrderShapes == {<<2, 1>>, <<3, 1>>, <<2, 2>>, <<1, 3>>}

NoHints(n) == [i \in 1..n |-> <<>>]

\* an equation of different molecules without hints
OrderedEquation(text) ==
  \E shape \in OrderShapes :
    \E rs \in [1..shape[1] -> Formulas], ps \in [1..shape[2] -> Formulas] :
      /\ \A i, j \in 1..Len(rs \o ps) : i # j => (rs \o ps)[i] # (rs \o ps)[j]
      /\ text = EquationText(rs, ps, NoHints(shape[1] + shape[2]))

OrderInit ==
  /\ OrderedEquation(equation)
  /\ phase = "ready"
  /\ outcome = NoOutcome
  /\ first = NoOutcome
  /\ history = <<>>
  /\ NoParse
  /\ NoSplit
  /\ NoSolve
  /\ currentLocale = "en"
  /\ translated = NotTranslated

OrderSpec == OrderInit /\ [][Balance]_vars

\* the orders a list can be written in
OrdersOf(list) ==
  {[i \in 1..Len(list) |-> list[order[i]]] :
     order \in Permutations(1..Len(list))}

\* C19: the coefficient solved for a molecule is the same in whatever order
\* the reactants, or the products, of the equation are written, also when
\* the null space has more than one basis vector
OrderIndependent ==
  Succeeded =>
    \A rs \in OrdersOf(outcome.locals.rMols),
       ps \in OrdersOf(outcome.locals.pMols) :
      LET other == balance(EquationText(rs, ps, NoHints(Len(rs) + Len(ps))))
      IN /\ other.result.status = "success"
         /\ other.result.coefficients = outcome.result.coefficients

(***************************************************************************)
(* Sessions: balance called several times, one call after the other        *)
(***************************************************************************)

\* the texts of a session: with a hint, the same without it, with an element
\* on one side only, with hints that disagree, and no text at all
SessionTexts ==
  { <<"2", "O", "2", " ", "+", " ", "H", "2", " ", "-", ">", " ", "H", "2", "O">>,
    <<"O", "2", " ", "+", " ", "H", "2", " ", "-", ">", " ", "H", "2", "O">>,
    <<"H", "2", " ", "-", ">", " ", "H", "2", "O">>,
    <<"3", "O", "2", " ", "+", " ", "H", "2", " ", "-", ">", " ", "2", "H", "2", "O">>,
    <<>> }

\* largest number of calls of one session
MaxCalls == 3

\* the locales setLocale accepts
Locales == {"en", "vi"}

\* a session starts in the locale the module was given before
SessionInit ==
  /\ NoBalance
  /\ NoParse
  /\ NoSplit
  /\ NoSolve
  /\ currentLocale \in Locales
  /\ translated = NotTranslated

\* ChemicalBalancer.balance(text), one more call of the session
BalanceNext ==
  /\ Len(history) < MaxCalls
  /\ \E text \in SessionTexts :
       /\ equation' = text
       /\ outcome' = balance(text)
       /\ history' = Append(history, [equation |-> text, outcome |-> outcome',
                                      locale |-> currentLocale])
  /\ UNCHANGED <<phase, first, parserVars, sideVars, solverVars,
               localeVars>>

SessionSpec == SessionInit /\ [][BalanceNext]_vars

Brackets == { <<"(", ")">>, <<"[", "]">> }

\* the complex salt: its two groups between the brackets b1 and b2
ComplexSalt(b1, b2) ==
  <<b1[1]>> \o <<"C", "r", "(", "N", "2", "H", "4", "C", "O", ")", "6">> \o <<b1[2], "4">>
    \o <<b2[1]>> \o <<"C", "r", "(", "C", "N", ")", "6">> \o <<b2[2], "3">>

MonsterReactants(b1, b2) == ComplexSalt(b1, b2) \o <<" ", "+", " ", "K",
                                                     "M", "n", "O", "4",
                                                     " ", "+", " ", "H",
                                                     "2", "S", "O", "4">>

MonsterProducts == <<"K", "2", "C", "r", "2", "O", "7", " ", "+", " ", "M",
                     "n", "S", "O", "4", " ", "+", " ", "C", "O", "2", " ",
                     "+", " ", "K", "N", "O", "3", " ", "+", " ", "K", "2",
                     "S", "O", "4", " ", "+", " ", "H", "2", "O">>

\* the equation as the README writes it
MonsterEquation ==
  MonsterReactants(<<"[", "]">>, <<"[", "]">>) \o <<" ", "-", ">", " ">> \o MonsterProducts

\* the equation as the test suite writes it
RoundMonsterEquation ==
  MonsterReactants(<<"(", ")">>, <<"(", ")">>) \o <<" ", "-", ">", " ">> \o MonsterProducts

MonsterText(text) ==
  \E b1 \in Brackets, b2 \in Brackets, sep \in SeparatorTexts, gap \in Gaps :
    text = MonsterReactants(b1, b2) \o <<" ">> \o gap \o sep \o gap \o <<" ">>
             \o MonsterProducts

MonsterInit ==
  /\ MonsterText(equation)
  /\ phase = "ready"
  /\ outcome = NoOutcome
  /\ first = NoOutcome
  /\ history = <<>>
  /\ NoParse
  /\ NoSplit
  /\ NoSolve
  /\ currentLocale = "en"
  /\ translated = NotTranslated

MonsterSpec == MonsterInit /\ [][Balance]_vars

\* C21: the equation written with square brackets balances with status
\* 'success'
MonsterBalances ==
  Called /\ equation = MonsterEquation => outcome.result.status = "success"

(***************************************************************************)
(* Parentheses that do not pair up                                         *)
(***************************************************************************)

\* the text of a message up to its first parameter
RECURSIVE UpToBrace(_)
UpToBrace(text) ==
  IF text = <<>> \/ Head(text) = "{" THEN <<>>
  ELSE <<Head(text)>> \o UpToBrace(Tail(text))

\* the error carries the message of the key, whatever values were filled in
ErrorOfKey(err, key) ==
  LET lead == UpToBrace(translations[currentLocale][key])
  IN Len(err.message) >= Len(lead) /\ Take(err.message, Len(lead)) = lead

\* every ( of the text has its ) behind it and every ) its ( before it
RECURSIVE Matched(_, _, _)
Matched(text, pos, depth) ==
  IF pos > Len(text) THEN depth = 0
  ELSE IF text[pos] = "(" THEN Matched(text, pos + 1, depth + 1)
  ELSE IF text[pos] = ")" THEN depth > 0 /\ Matched(text, pos + 1, depth - 1)
  ELSE Matched(text, pos + 1, depth)

\* the text without its innermost groups: a group is a ( and a ) around one
\* or more characters other than parentheses, with the digits behind it; an
\* atom stands where a group with an element token stood
RECURSIVE WithoutInnermost(_, _)
WithoutInnermost(text, pos) ==
  IF pos > Len(text) THEN <<>>
  ELSE IF text[pos] # "(" THEN <<text[pos]>> \o WithoutInnermost(text, pos + 1)
  ELSE
    LET close == pos + 1 + NonParenRun(text, pos + 1) IN
    IF close > pos + 1 /\ close <= Len(text) /\ text[close] = ")"
    THEN (IF \E i \in (pos + 1)..(close - 1) : IsUpper(text[i])
          THEN <<"H", "1">> ELSE <<>>)
           \o WithoutInnermost(text,
                               close + 1 + LeadingDigits(Drop(text, close)))
    ELSE <<"(">> \o WithoutInnermost(text, pos + 1)

\* what is left when innermost groups were removed until none is found
RECURSIVE Residue(_)
Residue(text) ==
  LET Again(rest) == IF rest = text THEN text ELSE Residue(rest)
  IN Again(WithoutInnermost(text, 1))

\* a ( remains that no removal of an innermost group takes away
OpenRemains(text) == Includes(Residue(text), "(")

SolverCounts ==
  { << <<<<"H">>, 2>> >>,
    << <<<<"O">>, 2>> >>,
    << <<<<"H">>, 2>>, <<<<"O">>, 1>> >>,
    << <<<<"H">>, 2>>, <<<<"O">>, 2>> >>,
    << <<ChargeKey, 1>>, <<<<"H">>, 1>> >>,
    <<>> }

\* the numbers of reactants and products of one call
SolverShapes ==
  { <<1, 1>>, <<2, 1>>, <<1, 2>>, <<3, 1>>, <<2, 2>>, <<1, 3>> }

SolverInput(in) ==
  \E shape \in SolverShapes :
    \E rs \in [1..shape[1] -> SolverCounts],
       ps \in [1..shape[2] -> SolverCounts] :
      in = [reactants |-> rs, products |-> ps]

SolverInit ==
  /\ SolverInput(input)
  /\ solved = NotSolved
  /\ NoBalance
  /\ NoParse
  /\ NoSplit
  /\ currentLocale = "en"
  /\ translated = NotTranslated

\* MathSolver.solve(reactants, products): its return value, or the error it
\* throws
Solve ==
  /\ ~solved.called
  /\ solved' = [called |-> TRUE,
                completion |-> solve(input.reactants, input.products)]
  /\ UNCHANGED <<input, balancerVars, parserVars, sideVars, localeVars>>

SolverSpec == SolverInit /\ [][Solve]_vars

\* the values solve computes on the way: the signed matrix, its reduced
\* form, the pivot and the free columns, and the basis vectors
SignedMatrix == BuildMatrix(input.reactants, input.products)

ReducedMatrix == toRREF(SignedMatrix)

Pivots == PivotCols(ReducedMatrix.val, 1, 1)

Frees == FreeCols(ReducedMatrix.val, Pivots)

Basis == BasisVectors(ReducedMatrix.val)

\* the determinant of a square matrix of integers, expanded along row 1
RECURSIVE Det(_)
Det(m) ==
  IF Len(m) = 0 THEN 1
  ELSE LET Minor(j) == [i \in 1..(Len(m) - 1) |->
                          [c \in 1..(Len(m) - 1) |->
                             m[i + 1][IF c < j THEN c ELSE c + 1]]]
           RECURSIVE Expand(_)
           Expand(j) ==
             IF j > Len(m) THEN 0
             ELSE (IF j % 2 = 1 THEN 1 ELSE -1) * m[1][j] * Det(Minor(j))
                    + Expand(j + 1)
       IN Expand(1)

\* the members of a set of numbers in increasing order
RECURSIVE Ascending(_)
Ascending(set) ==
  IF set = {} THEN <<>>
  ELSE LET least == CHOOSE x \in set : \A y \in set : x <= y
       IN <<least>> \o Ascending(set \ {least})

\* the rank of a matrix of rationals with integer entries: the size of its
\* largest square submatrix with a determinant other than 0
Rank(matrix) ==
  LET Sub(rows, cols) ==
        [i \in 1..Len(rows) |-> [j \in 1..Len(cols) |->
                                   matrix[rows[i]][cols[j]][1]]]
      Regular(k) ==
        \E R \in SUBSET (1..Len(matrix)), C \in SUBSET (1..Len(matrix[1])) :
          /\ Cardinality(R) = k
          /\ Cardinality(C) = k
          /\ Det(Sub(Ascending(R), Ascending(C))) # 0
  IN CHOOSE k \in 0..Len(matrix) :
       Regular(k) /\ \A more \in (k + 1)..Len(matrix) : ~Regular(more)

\* the product of a matrix and a vector is the zero vector
InNullSpace(matrix, v) ==
  \A r \in 1..Len(matrix) : FracIsZero(RowDot(matrix[r], v, 1))

\* C23: for a signed matrix that toRREF reduced, there are as many basis
\* vectors as the matrix has columns beyond its rank, one for every free
\* column; a basis vector has 1 in its own free column, 0 in the other free
\* columns, and the signed matrix times the vector is 0
BasisSpansNullSpace ==
  LET Spans(matrix, frees, basis) ==
        /\ Len(basis) = Len(matrix[1]) - Rank(matrix)
        /\ Len(basis) = Len(frees)
        /\ \A k \in 1..Len(basis) :
             /\ Len(basis[k]) = Len(matrix[1])
             /\ \A f \in 1..Len(frees) :
                  basis[k][frees[f]] = FracOfInt(IF f = k THEN 1 ELSE 0)
             /\ InNullSpace(matrix, basis[k])
  IN solved.called /\ ReducedMatrix.ok => Spans(SignedMatrix, Frees, Basis)

\* H2 + O2 + H2O2 -> H2O was solved: two free columns, and a basis vector
\* with a negative entry
TwoBasisVectors ==
  /\ solved.called
  /\ input = [reactants |-> << << <<<<"H">>, 2>> >>, << <<<<"O">>, 2>> >>,
                               << <<<<"H">>, 2>>, <<<<"O">>, 2>> >> >>,
              products |-> << << <<<<"H">>, 2>>, <<<<"O">>, 1>> >> >>]
  /\ Pivots = <<1, 2>>
  /\ Frees = <<3, 4>>
  /\ Basis = << <<FracOfInt(-1), FracOfInt(-1), FracOfInt(1), FracOfInt(0)>>,
                <<FracOfInt(1), Frac(1, 2), FracOfInt(0), FracOfInt(1)>> >>

\* the sum of the basis vectors, each times its weight
RECURSIVE Combination(_, _, _)
Combination(basis, weights, k) ==
  IF k > Len(basis)
  THEN [i \in 1..Len(basis[1]) |-> FracOfInt(0)]
  ELSE LET rest == Combination(basis, weights, k + 1)
       IN [i \in 1..Len(basis[1]) |->
             FracAdd(FracMul(FracOfInt(weights[k]), basis[k][i]), rest[i])]

\* the least member of a set of numbers
Least(set) == CHOOSE x \in set : \A y \in set : x <= y

\* of a set of weights the first in the order of the search: the weight of
\* the first basis vector changes last
RECURSIVE FirstSearched(_, _, _)
FirstSearched(set, k, n) ==
  IF k > n THEN CHOOSE w \in set : TRUE
  ELSE LET Narrowed(least) == FirstSearched({w \in set : w[k] = least}, k + 1, n)
       IN Narrowed(Least({w[k] : w \in set}))

\* the vector the claim names for two or more basis vectors
ChosenCombination(basis) ==
  LET Pick(vectors) ==
        LET allowed == {w \in DOMAIN vectors :
                          \A i \in 1..Len(basis[1]) : vectors[w][i][1] >= 0}
            Fewest(zeros) ==
              LET WithZeros(least) == {w \in allowed : zeros[w] = least}
              IN WithZeros(Least({zeros[w] : w \in allowed}))
        IN IF allowed = {}
           THEN Combination(basis, [k \in 1..Len(basis) |-> 1], 1)
           ELSE vectors[FirstSearched(
                  Fewest([w \in allowed |->
                            Cardinality({i \in 1..Len(basis[1]) :
                                           vectors[w][i][1] = 0})]),
                  1, Len(basis))]
  IN Pick([w \in [1..Len(basis) -> 1..MAX_WEIGHT_SEARCH] |->
             Combination(basis, w, 1)])

\* C24: with two or more basis vectors solve returns the normalization of
\* the combination with weights in 1..6 that has no negative entry and the
\* fewest zero entries, the first in the order of the search among equals,
\* and the normalization of the plain sum of the basis vectors when every
\* combination has a negative entry
SearchChoosesFewestZeros ==
  LET Chosen(basis) ==
        Len(basis) >= 2 =>
          /\ solved.completion.ok
          /\ solved.completion.val = normalize(ChosenCombination(basis))
  IN solved.called /\ ReducedMatrix.ok => Chosen(Basis)

\* H2 + O2 + H2O2 -> H2O came back as 4, 1, 2, 6: the combination with the
\* weights 1 and 2 has a zero entry, the one with the weights 1 and 3 none
WeightsFound ==
  /\ solved.called
  /\ input = [reactants |-> << << <<<<"H">>, 2>> >>, << <<<<"O">>, 2>> >>,
                               << <<<<"H">>, 2>>, <<<<"O">>, 2>> >> >>,
              products |-> << << <<<<"H">>, 2>>, <<<<"O">>, 1>> >> >>]
  /\ Combination(Basis, <<1, 2>>, 1)
       = <<FracOfInt(1), FracOfInt(0), FracOfInt(1), FracOfInt(2)>>
  /\ Combination(Basis, <<1, 3>>, 1)
       = <<FracOfInt(2), Frac(1, 2), FracOfInt(1), FracOfInt(3)>>
  /\ solved.completion.val = <<4, 1, 2, 6>>

\* H2 + H2 + H2 -> O2: every combination has a negative entry, and the sum
\* of the two basis vectors came back
FallbackSumReturned ==
  /\ solved.called
  /\ ReducedMatrix.ok
  /\ Len(Basis) = 2
  /\ \A w \in [1..2 -> 1..MAX_WEIGHT_SEARCH] :
       \E i \in 1..Len(Basis[1]) : Combination(Basis, w, 1)[i][1] < 0
  /\ solved.completion.val = normalize(Combination(Basis, <<1, 1>>, 1))

\* searchWeights with the calls that reach a leaf counted: found holds
\* bestVector and the number of combinations evaluated so far
RECURSIVE searchLeaves(_, _, _, _, _)
searchLeaves(basis, index, currentVec, found, w) ==
  IF index > Len(basis)
  THEN [best |-> ConsiderCandidate(currentVec, found.best),
        leaves |-> found.leaves + 1]
  ELSE IF w > MAX_WEIGHT_SEARCH THEN found
  ELSE
    LET nextVec == [i \in 1..Len(currentVec) |->
                      FracAdd(currentVec[i],
                              FracMul(basis[index][i], FracOfInt(w)))]
        Continue(after) ==
          IF after.best # <<>>
               /\ \A i \in 1..Len(after.best) : FracN(after.best[i]) > 0
          THEN after
          ELSE searchLeaves(basis, index, currentVec, after, w + 1)
    IN Continue(searchLeaves(basis, index + 1, nextVec, found, 1))

\* the number of weight combinations one call of solve evaluates
Evaluated(basis) ==
  searchLeaves(basis, 1, [i \in 1..Len(basis[1]) |-> FracOfInt(0)],
               [best |-> <<>>, leaves |-> 0], 1).leaves

\* C25: with two or more basis vectors the search evaluates at most
\* MAX_WEIGHT_SEARCH to the power of the number of basis vectors less one
\* weight combinations
SearchWithinBound ==
  LET Bounded(basis) ==
        Len(basis) >= 2 =>
          Evaluated(basis) <= MAX_WEIGHT_SEARCH ^ (Len(basis) - 1)
  IN solved.called /\ ReducedMatrix.ok => Bounded(Basis)

(***************************************************************************)
(* Vectors of rationals given to MathSolver.normalize                      *)
(***************************************************************************)

\* largest numerator and largest denominator of an entry
MaxNumerator == 3

MaxDenominator == 3

\* the rationals in lowest terms, as fraction.js keeps them
Rationals ==
  {q \in (-MaxNumerator..MaxNumerator) \X (1..MaxDenominator) :
     Frac(q[1], q[2]) = q}

\* the numbers of entries of a vector
VectorLengths == {1, 2, 3}

NormalizeInit ==
  /\ input \in UNION {[1..n -> Rationals] : n \in VectorLengths}
  /\ solved = NotSolved
  /\ NoBalance
  /\ NoParse
  /\ NoSplit
  /\ currentLocale = "en"
  /\ translated = NotTranslated

\* MathSolver.normalize(vector)
Normalize ==
  /\ ~solved.called
  /\ solved' = [called |-> TRUE, completion |-> Return(normalize(input))]
  /\ UNCHANGED <<input, balancerVars, parserVars, sideVars, localeVars>>

NormalizeSpec == NormalizeInit /\ [][Normalize]_vars

\* C26: normalize maps the zero vector to the zero vector and every other
\* vector v of rationals to the vector of integers that is a positive
\* multiple of the absolute values of v and whose entries have the
\* greatest common divisor 1: no entry is negative, and an entry is 0 where
\* v is 0
NormalizeIsPrimitiveMultiple ==
  LET Primitive(v, res) ==
        /\ Len(res) = Len(v)
        /\ \A i \in 1..Len(v) : res[i] \in Nat /\ (res[i] = 0 <=> v[i][1] = 0)
        /\ \A i, j \in 1..Len(v) :
             res[i] * Abs(v[j][1]) * v[i][2] = res[j] * Abs(v[i][1]) * v[j][2]
        /\ (\E i \in 1..Len(v) : v[i][1] # 0) =>
             \A d \in 2..(MaxNumerator * MaxDenominator * MaxDenominator) :
               \E i \in 1..Len(v) : res[i] % d # 0
  IN solved.called => Primitive(input, solved.completion.val)

\* the vector -3/2, 0, 2/3 came back as 9, 0, 4
SignsAndDenominatorsCleared ==
  /\ solved.called
  /\ input = <<Frac(-3, 2), FracOfInt(0), Frac(2, 3)>>
  /\ solved.completion.val = <<9, 0, 4>>

\* solve returned one integer for every molecule, the reactants first and
\* the products behind them: a molecule with an element that no other
\* molecule holds has 0 at its own place; with no free column every integer
\* is 0
SolveReturnedVector ==
  LET all == input.reactants \o input.products
      Alone(i) ==
        \E k \in 1..Len(all[i]) :
          /\ all[i][k][2] # 0
          /\ \A j \in (1..Len(all)) \ {i} : ~HasKey(all[j], all[i][k][1])
      Placed(res) ==
        /\ Len(res) = Len(all)
        /\ \A i \in 1..Len(all) : res[i] \in Int /\ (Alone(i) => res[i] = 0)
      AllZero(res, frees) ==
        Len(frees) = 0 => \A i \in 1..Len(all) : res[i] = 0
  IN /\ solved.completion.ok
     /\ Placed(solved.completion.val)
     /\ AllZero(solved.completion.val, Frees)

PrintedTokens ==
  LET sides == SplitOn(outcome.result.balancedString, <<" ", "-", ">", " ">>)
  IN SplitOn(sides[1], <<" ", "+", " ">>) \o SplitOn(sides[2], <<" ", "+", " ">>)

\* a molecule as balancedString prints it with a coefficient in front
PrintedWith(coefficient, name) ==
  (IF coefficient = FracOfInt(1) THEN <<>> ELSE NumberToText(coefficient))
    \o name

\* C28: in a successful result the coefficients map has one entry for every
\* molecule token of the equation, and the entry of a token is the
\* coefficient that balancedString prints in front of that token
CoefficientsMatchTokens ==
  Succeeded =>
    /\ Cardinality(DOMAIN outcome.result.coefficients) = Len(Mols)
    /\ Len(PrintedTokens) = Len(Mols)
    /\ \A i \in 1..Len(Mols) :
         PrintedTokens[i]
           = PrintedWith(outcome.result.coefficients[Mols[i]], Mols[i])

(***************************************************************************)
(* Locales: the same call under both locales, and t on its own             *)
(***************************************************************************)

\* keys no locale has a message for
UnknownKeys == {"error.no_such_key", "formula"}

\* the parameters t is called with: none, or the formula of a message
TranslateParams ==
  { <<>>,
    << << <<"f", "o", "r", "m", "u", "l", "a">>,
          <<"H", "2", "O">> >> >>,
    << << <<"f", "o", "r", "m", "u", "l", "a">>,
          << "H", "$",
             "$"
          >> >> >> }

\* either one text is balanced under the locales, or t is called
LocaleInit ==
  /\ \/ PlainEquation(equation)
     \/ equation \in BlankTexts \cup SessionTexts
  /\ phase = "ready"
  /\ outcome = NoOutcome
  /\ first = NoOutcome
  /\ history = <<>>
  /\ NoParse
  /\ NoSplit
  /\ NoSolve
  /\ currentLocale \in Locales
  /\ translated = NotTranslated

\* setLocale(locale)
SetLocale ==
  /\ \E locale \in Locales : currentLocale' = locale
  /\ UNCHANGED <<balancerVars, parserVars, sideVars, solverVars, translated>>

\* ChemicalBalancer.balance(equation) under a locale it was not called under
BalanceUnder ==
  /\ ~translated.called
  /\ \A i \in 1..Len(history) : history[i].locale # currentLocale
  /\ outcome' = balance(equation)
  /\ phase' = "balanced"
  /\ history' = Append(history, [equation |-> equation, outcome |-> outcome',
                                 locale |-> currentLocale])
  /\ UNCHANGED <<equation, first, parserVars, sideVars, solverVars,
               localeVars>>

\* t(key, params), called once
Translate ==
  /\ history = <<>>
  /\ equation = <<>>
  /\ ~translated.called
  /\ \E key \in DOMAIN translations.en \cup UnknownKeys :
       \E params \in TranslateParams :
         translated' = [called |-> TRUE, key |-> key, params |-> params,
                        locale |-> currentLocale,
                        message |-> t(key, params)]
  /\ UNCHANGED <<balancerVars, parserVars, sideVars, solverVars,
               currentLocale>>

LocaleSpec == LocaleInit /\ [][SetLocale \/ BalanceUnder \/ Translate]_vars

\* what a result says apart from the words of its message
Unworded(o) ==
  IF ~o.returned THEN o
  ELSE IF o.result.status = "success" THEN o.result
  ELSE [status |-> o.result.status]

\* C29: the locale changes the words of a message and nothing else: the same
\* text balanced under 'en' and under 'vi' gives the same status,
\* coefficients, balancedString and debug; t gives the message of the
\* current locale for a key the locale has, else the English message, else
\* the key itself
LocaleChangesWordsOnly ==
  /\ \A i, j \in 1..Len(history) :
       Unworded(history[i].outcome) = Unworded(history[j].outcome)
  /\ translated.called =>
       LET key == translated.key
           Worded(text) ==
             translated.message = Interpolate(text, translated.params)
       IN IF key \in DOMAIN translations[translated.locale]
          THEN Worded(translations[translated.locale][key])
          ELSE IF key \in DOMAIN translations.en
          THEN Worded(translations.en[key])
          ELSE Worded(KeyText(key))

\* one failing text was balanced under both locales and the two messages
\* are worded differently; t was asked for a key no locale has
BothLocalesAnswered ==
  \/ /\ Len(history) = 2
     /\ history[1].locale # history[2].locale
     /\ history[1].outcome.result.status = "error"
     /\ history[1].outcome.result.message # history[2].outcome.result.message
  \/ /\ translated.called
     /\ translated.key \in UnknownKeys
     /\ translated.locale = "vi"

(***************************************************************************)
(* The parentheses expansion loop ends                                     *)
(***************************************************************************)

\* how many ( stand in a text
Opens(text) == Cardinality({i \in 1..Len(text) : text[i] = "("})

\* the working strings the loop is started with for a formula, each with
\* the text its error names: the formula without whitespace and state
\* annotation, or every part of a hydrate without its leading integer,
\* then without leading digits and charge suffix
LoopStarts(text) ==
  LET Start(sub) ==
        [named |-> sub,
         text |-> ExtractCharge(Drop(sub, LeadingDigits(sub))).text]
      Sub(parts, index) ==
        LET m == IF index > 1 THEN MatchLeadingCoeff(parts[index])
                 ELSE [matched |-> FALSE]
        IN IF m.matched THEN m.rest ELSE parts[index]
      Parts(parts) == {Start(Sub(parts, index)) : index \in 1..Len(parts)}
      Of(noSpaces) ==
        LET cleanFormula ==
              Take(noSpaces, Len(noSpaces) - StateAnnotationLength(noSpaces))
        IN IF Includes(cleanFormula, ".")
           THEN Parts(SplitOn(cleanFormula, <<".">>))
           ELSE {Start(cleanFormula)}
  IN Of(StripSpaces(text))

\* the passes the loop makes from a working string on when every pass that
\* finds a group leaves fewer ( than it met and a pass that finds none ends
\* the loop with the formula-syntax error, and -1 when a pass does neither
RECURSIVE Passes(_, _)
Passes(processedFormula, named) ==
  IF ~Includes(processedFormula, "(") THEN 0
  ELSE LET Counted(rest) == IF rest < 0 THEN -1 ELSE 1 + rest
           Thrown(end) ==
             IF ~end.ok /\ ErrorOfKey(end.err, "error.invalid_formula_syntax")
             THEN 1 ELSE -1
           After(pass) ==
             IF pass.found
             THEN IF Opens(pass.text) < Opens(processedFormula)
                  THEN Counted(Passes(pass.text, named))
                  ELSE -1
             ELSE Thrown(ExpandParentheses(processedFormula, named))
       IN After(ExpandPass(processedFormula, 1))

\* C30: the expansion loop ends on every input: from every working string
\* each pass lowers the number of ( or raises the formula-syntax error, the
\* loop makes no more passes than the string has (, and parseFormula ends
\* with counts or with an error
ExpansionLoopEnds ==
  /\ \A start \in LoopStarts(formula) :
       LET Bounded(passes) == 0 <= passes /\ passes <= Opens(start.text)
       IN Bounded(Passes(start.text, start.named))
  /\ parsed.called =>
       IF parsed.completion.ok
       THEN \A i \in 1..Len(parsed.completion.val) :
              parsed.completion.val[i][2] \in Int
       ELSE parsed.completion.err.message # <<>>

\* a formula with a group inside a group was parsed: the loop made two
\* passes and ended with counts
TwoPassesMade ==
  /\ Parsed
  /\ \E start \in LoopStarts(formula) :
       Passes(start.text, start.named) = 2

====
